---- MODULE Spec2Model ----
(***************************************************************************)
(* A model of the Todo-App backend (src/crud.py, src/routers/todo.py,      *)
(* src/models.py, src/schemas.py).                                        *)
(*                                                                         *)
(* The relational store is the state: the todos table (a function from    *)
(* row id to row), the activity_logs table (a sequence of rows in insert  *)
(* order), the autoincrement counter and the UTC clock.  Each request     *)
(* handler is one action: it runs to completion (the handlers are         *)
(* synchronous) and leaves its HTTP outcome in `last`.                    *)
(*                                                                         *)
(* Time is in half seconds, so that int(timedelta.total_seconds())         *)
(* truncates.  A nullable integer column holds None (-1) for NULL, a      *)
(* nullable string column holds NoneStr.                                  *)
(***************************************************************************)
EXTENDS Integers, Sequences, FiniteSets, TLC

VARIABLES
    todos,          \* models.Todo rows: [id -> row], DOMAIN = the ids present
    categories,     \* models.Category rows: [id -> name]
    activity_logs,  \* models.ActivityLog rows, in insertion order
    comments,       \* models.Comment rows, in insertion order
    tags,           \* models.Tag rows: the ids present
    users,          \* models.User rows: the ids present
    next_id,        \* the next primary key of the todos table
    now,            \* datetime.utcnow(), in half seconds
    last,           \* the last request and the outcome reported to the client
    ever_completed, \* history: the ids whose status has been COMPLETED
    sessions,       \* get_db: the Session of each request in flight, with
                    \* the row it has loaded
    pomodoro_ok     \* history: per todo id, the complete_pomodoro requests
                    \* answered with 200

vars == <<todos, categories, activity_logs, comments, tags, users, next_id, now,
          last, ever_completed, sessions, pomodoro_ok>>

(***************************************************************************)
(* Bounds of the model.                                                    *)
(***************************************************************************)
MaxTodos == 1
MaxLog == 3
MaxTicks == 1
UpdTodos == 1
UpdLog == 3
UpdTicks == 1
TimerTodos == 1
TimerLog == 2
TimerTicks == 1
MaxEntries == 2
RecurTodos == 2
InstTodos == 2
ArchTodos == 2
ArchLog == 3
SortTodos == 2
ListTodos == 2
DelTodos == 2
ExpTodos == 2
PomTodos == 2
RepTodos == 3
MaxSessions == 2
MaxPomodoros == 3
ExpLog == 3
FieldTodos == 1
FieldLog == 2
FieldRows == 1
RelTodos == 1
RelRows == 1
DelWrites == 4
LogTodos == 2
LogWrites == 3
MaxBack == 4
MaxTrendDays == 3

(***************************************************************************)
(* Values.                                                                 *)
(***************************************************************************)
None == -1
NoneStr == "None"

UnitsPerSecond == 2
\* The step of the clock: 90.5 s, the 90 s of the timer example and a fraction
\* of a second for int() to lose.
ClockStep == 90 * UnitsPerSecond + UnitsPerSecond \div 2

SecondsPerMinute == 60
UnitsPerDay == 172800
SecondsPerHour == 3600

\* models.StatusLevel, models.PriorityLevel, models.RecurrencePattern: the
\* members by name.  The schemas' enums are the lower-case values.
StatusLevel == {"PENDING", "IN_PROGRESS", "COMPLETED", "CANCELLED"}
PriorityLevel == {"LOW", "MEDIUM", "HIGH", "URGENT"}
RecurrencePattern == {"NONE", "DAILY", "WEEKLY", "MONTHLY", "YEARLY"}

\* str.upper() on the strings the model passes around.
upper(s) ==
    CASE s = "pending" -> "PENDING"
      [] s = "in_progress" -> "IN_PROGRESS"
      [] s = "completed" -> "COMPLETED"
      [] s = "cancelled" -> "CANCELLED"
      [] s = "low" -> "LOW"
      [] s = "medium" -> "MEDIUM"
      [] s = "high" -> "HIGH"
      [] s = "urgent" -> "URGENT"
      [] s = "none" -> "NONE"
      [] s = "daily" -> "DAILY"
      [] s = "weekly" -> "WEEKLY"
      [] s = "monthly" -> "MONTHLY"
      [] s = "yearly" -> "YEARLY"
      [] s = "archived" -> "ARCHIVED"
      [] OTHER -> s

\* getattr(enum, name, None)
getattr(enum, name) == IF name \in enum THEN name ELSE NoneStr

\* json.dumps / json.loads: the text is kept as the value it encodes, tagged
\* as a str so that isinstance(x, str) can tell it from the decoded value.
json_dumps(v) == [kind |-> "str", value |-> v]
json_loads(s) == s.value
JsonNull == [kind |-> "null", value |-> <<>>]
isinstance_str(x) == x.kind = "str"

\* date() of a timestamp: the calendar day, counted from the epoch.
date(ts) == ts \div UnitsPerDay
\* The month and the day of the month of a timestamp of 2024, the epoch being
\* 2024-01-01T00:00.
DaysInMonth2024 == <<31, 29, 31, 30, 31, 30, 31, 31, 30, 31, 30, 31>>
RECURSIVE MonthDay(_, _)
MonthDay(month, days) ==
    IF days < DaysInMonth2024[month] THEN <<month, days + 1>>
    ELSE MonthDay(month + 1, days - DaysInMonth2024[month])
month_day(ts) == MonthDay(1, date(ts))
\* datetime(d.year, d.month, d.day): midnight of that day.
midnight(ts) == date(ts) * UnitsPerDay

RECURSIVE SumSeq(_)
SumSeq(s) == IF s = <<>> THEN 0 ELSE Head(s) + SumSeq(Tail(s))

RECURSIVE SetToSeq(_)
\* the members of a finite set of integers in ascending order
SetToSeq(S) ==
    IF S = {} THEN <<>>
    ELSE LET m == CHOOSE x \in S : \A y \in S : x <= y
         IN <<m>> \o SetToSeq(S \ {m})

Range(s) == {s[i] : i \in DOMAIN s}

(***************************************************************************)
(* The store and the schemas.                                              *)
(***************************************************************************)

\* The columns of models.Todo the model follows, with the column defaults.
TodoDefaults ==
    [ title |-> NoneStr, status |-> "PENDING", priority |-> "MEDIUM",
      due_date |-> None, category_id |-> None, completed_at |-> None,
      is_archived |-> FALSE, actual_duration |-> None, parent_id |-> None,
      recurrence_pattern |-> "NONE", recurrence_end_date |-> None,
      original_todo_id |-> None, is_template |-> FALSE,
      template_name |-> NoneStr, time_entries |-> JsonNull,
      timer_started_at |-> None, pomodoro_count |-> 0,
      pomodoro_target |-> None, created_by |-> None,
      tags |-> {}, assignees |-> {}, dependencies |-> {} ]

\* schemas.TodoBase / TodoCreate: the fields of a create request, defaulted.
TodoCreateDefaults ==
    [ title |-> "a", status |-> "pending", priority |-> "medium",
      due_date |-> None, category_id |-> None, parent_id |-> None,
      recurrence_pattern |-> "none", recurrence_end_date |-> None,
      is_template |-> FALSE, template_name |-> NoneStr,
      pomodoro_target |-> None ]

\* dict.update: base with the keys of upd overwritten (keys of upd that base
\* does not have are added).
Override(base, upd) ==
    [k \in DOMAIN base \cup DOMAIN upd |->
        IF k \in DOMAIN upd THEN upd[k] ELSE base[k]]

\* The "Handle enum conversion" blocks: a str status / priority / recurrence
\* pattern becomes the models enum member of the upper-cased name.
EnumKeys == {"status", "priority", "recurrence_pattern"}
EnumOf(k) ==
    CASE k = "status" -> StatusLevel
      [] k = "priority" -> PriorityLevel
      [] k = "recurrence_pattern" -> RecurrencePattern
ConvertEnums(data, keys) ==
    [k \in DOMAIN data |->
        IF k \in keys THEN getattr(EnumOf(k), upper(data[k])) ELSE data[k]]

\* str(value) of a column value, by the column's type.
str(k, v) ==
    CASE k = "status" -> IF v = NoneStr THEN "None" ELSE "StatusLevel." \o v
      [] k = "priority" -> IF v = NoneStr THEN "None" ELSE "PriorityLevel." \o v
      [] k = "recurrence_pattern" ->
            IF v = NoneStr THEN "None" ELSE "RecurrencePattern." \o v
      [] k \in {"is_archived", "is_template"} -> IF v THEN "True" ELSE "False"
      [] k \in {"title", "template_name"} -> v
      [] OTHER -> IF v = None THEN "None" ELSE ToString(v)

DB == [todos |-> todos, categories |-> categories,
       activity_logs |-> activity_logs, comments |-> comments, tags |-> tags,
       users |-> users, next_id |-> next_id]

\* Session.add + commit of a new models.Todo: the autoincrement key and the
\* server default of created_at.
\* models.py declares the foreign keys (comments.todo_id, activity_logs.todo_id,
\* todos.parent_id, the association tables); whether the engine enforces them
\* is decided where the engine is created, in database.py.  The design has a
\* deleted todo leave dangling references behind, so they are not enforced.
ForeignKeysEnforced == FALSE

InsertTodo(db, data, t) ==
    [db EXCEPT
        !.todos = [i \in DOMAIN db.todos \cup {db.next_id} |->
                     IF i = db.next_id
                     THEN Override(TodoDefaults, data) @@
                          [id |-> db.next_id, created_at |-> t]
                     ELSE db.todos[i]],
        !.next_id = db.next_id + 1]

get_todo(db, todo_id) ==
    IF todo_id \in DOMAIN db.todos THEN db.todos[todo_id] ELSE None

log_activity(db, todo_id, user_id, action, details, t) ==
    [db EXCEPT !.activity_logs =
        Append(@, [todo_id |-> todo_id, user_id |-> user_id, action |-> action,
                   details |-> json_dumps(details), timestamp |-> t])]

(***************************************************************************)
(* crud.py: the mutations.  Each takes the store and the time of the call  *)
(* and gives the store after it and the value returned.                    *)
(***************************************************************************)

\* The relationship keys of schemas.TodoCreate / TodoUpdate.  An id list is a
\* set of ids; NoneList is the value None where a list is expected.
RelKeys == {"tag_ids", "assignee_ids", "dependency_ids"}
NoneList == {None}
Exclude(data, keys) == [k \in DOMAIN data \ keys |-> data[k]]

\* A variant that links every id of the list.
CreateRelated_EveryId(todo, key, table_ids) ==
    IF key \in DOMAIN todo /\ todo[key] # NoneList /\ todo[key] # {}
    THEN todo[key]
    ELSE {}

\* create_todo, "Handle relationships": a list that is None or empty is
\* skipped; of the ids of a list, Model.id.in_(ids) finds the rows that exist.
CreateRelated(todo, key, table_ids) ==
    IF key \in DOMAIN todo /\ todo[key] # NoneList /\ todo[key] # {}
    THEN todo[key] \cap table_ids
    ELSE {}

create_todo(db, todo, user_id, t) ==
    LET converted == ConvertEnums(Exclude(todo, RelKeys), EnumKeys)
        creator == IF user_id # None /\ user_id # 0
                   THEN converted @@ [created_by |-> user_id]
                   ELSE converted
        todo_data == [tags |-> CreateRelated(todo, "tag_ids", db.tags),
                      assignees |-> CreateRelated(todo, "assignee_ids", db.users),
                      dependencies |->
                          CreateRelated(todo, "dependency_ids", DOMAIN db.todos)]
                     @@ creator
        todo_id == db.next_id
        db1 == InsertTodo(db, todo_data, t)
    IN [db |-> log_activity(db1, todo_id, user_id, "created",
                            [title |-> db1.todos[todo_id].title], t),
        ret |-> todo_id]

\* A variant that stamps on every completing update.
StampCompletedAt_EveryTime(row, update_data, t) ==
    IF /\ "status" \in DOMAIN update_data
       /\ update_data["status"] = "COMPLETED"
    THEN [row EXCEPT !.completed_at = t]
    ELSE row

\* Lines 194-197: stamp completed_at on a completing update, once.
StampCompletedAt(row, update_data, t) ==
    IF /\ "status" \in DOMAIN update_data
       /\ update_data["status"] = "COMPLETED"
       /\ row.completed_at = None
    THEN [row EXCEPT !.completed_at = t]
    ELSE row

\* A variant that records every key of the request.
Changes_EverySuppliedKey(db_todo, update_data) ==
    [k \in DOMAIN update_data |->
        [old |-> str(k, db_todo[k]), new |-> str(k, update_data[k])]]

\* The loop over update_data.items(): the keys whose value differs from the
\* column, each with the old and the new value as strings.
Changes(db_todo, update_data) ==
    LET changed == {k \in DOMAIN update_data : db_todo[k] # update_data[k]}
    IN [k \in changed |->
          [old |-> str(k, db_todo[k]), new |-> str(k, update_data[k])]]

\* A variant that skips an empty list as create_todo does.
UpdateRelated_SkipsEmpty(current, todo, key, table_ids) ==
    IF key \in DOMAIN todo /\ todo[key] # NoneList /\ todo[key] # {}
    THEN todo[key] \cap table_ids
    ELSE current

\* update_todo, "Handle relationships": replaced when the key was sent and its
\* value is not None.
UpdateRelated(current, todo, key, table_ids) ==
    IF key \in DOMAIN todo /\ todo[key] # NoneList
    THEN todo[key] \cap table_ids
    ELSE current

update_todo(db, todo_id, todo, user_id, t) ==
    IF todo_id \notin DOMAIN db.todos THEN [db |-> db, ret |-> None]
    ELSE
    LET db_todo == db.todos[todo_id]
        scalars == Exclude(todo, RelKeys)
        update_data == ConvertEnums(scalars, EnumKeys \cap DOMAIN scalars)
        changes == Changes(db_todo, update_data)
        related ==
            [Override(db_todo, update_data) EXCEPT
                !.tags = UpdateRelated(@, todo, "tag_ids", db.tags),
                !.assignees = UpdateRelated(@, todo, "assignee_ids", db.users),
                !.dependencies =
                    UpdateRelated(@, todo, "dependency_ids", DOMAIN db.todos)]
        row == StampCompletedAt(related, update_data, t)
        db1 == [db EXCEPT !.todos[todo_id] = row]
    IN [db |-> IF DOMAIN changes # {}
               THEN log_activity(db1, todo_id, user_id, "updated", changes, t)
               ELSE db1,
        ret |-> todo_id]

\* json.dumps(update_data) raises TypeError when a value is a member of a
\* models enum (a plain enum.Enum): after the conversion of lines 224-228 that
\* is every payload with a status or a priority.
JsonSerializable(update_data) ==
    DOMAIN update_data \cap {"status", "priority"} = {}

bulk_update_todos(db, todo_ids, update_data0, user_id, t) ==
    LET update_data ==
            ConvertEnums(update_data0, {"status", "priority"} \cap DOMAIN update_data0)
        db1 == [db EXCEPT !.todos =
                   [i \in DOMAIN db.todos |->
                      IF i \in Range(todo_ids)
                      THEN Override(db.todos[i], update_data)
                      ELSE db.todos[i]]]
        logged == [i \in DOMAIN todo_ids |->
                     [todo_id |-> todo_ids[i], user_id |-> user_id,
                      action |-> "bulk_updated",
                      details |-> json_dumps(update_data), timestamp |-> t]]
    IN IF todo_ids # <<>> /\ ~JsonSerializable(update_data)
       THEN [db |-> db1, ret |-> None, raised |-> "TypeError"]
       ELSE [db |-> [db1 EXCEPT !.activity_logs = @ \o logged],
             ret |-> Len(todo_ids), raised |-> NoneStr]

\* A variant that leaves the status of a completed or cancelled todo.
start_timer_KeepsFinished(db, todo_id, t) ==
    IF todo_id \notin DOMAIN db.todos THEN [db |-> db, ret |-> None]
    ELSE [db |-> [db EXCEPT !.todos[todo_id].timer_started_at = t,
                            !.todos[todo_id].status =
                                IF @ \in {"COMPLETED", "CANCELLED"}
                                THEN @ ELSE "IN_PROGRESS"],
          ret |-> todo_id]

start_timer(db, todo_id, t) ==
    IF todo_id \notin DOMAIN db.todos THEN [db |-> db, ret |-> None]
    ELSE [db |-> [db EXCEPT !.todos[todo_id].timer_started_at = t,
                            !.todos[todo_id].status = "IN_PROGRESS"],
          ret |-> todo_id]

\* int((utcnow() - timer_started_at).total_seconds())
duration_seconds(started, t) == (t - started) \div UnitsPerSecond

\* A variant that counts the last entry only.
total_duration_minutes_LastEntry(time_entries) ==
    time_entries[Len(time_entries)].duration \div SecondsPerMinute

\* sum(entry['duration'] for entry in time_entries) // 60
total_duration_minutes(time_entries) ==
    SumSeq([i \in DOMAIN time_entries |-> time_entries[i].duration])
        \div SecondsPerMinute

\* db_todo.time_entries or [], decoded when it is a str
LoadTimeEntries(column) ==
    IF column.kind = "null" THEN <<>>
    ELSE IF isinstance_str(column) THEN json_loads(column)
    ELSE column.value

\* A variant that recomputes actual_duration when no timer is running.
stop_timer_RecomputesAnyway(db, todo_id, t) ==
    IF todo_id \notin DOMAIN db.todos THEN [db |-> db, ret |-> None]
    ELSE IF db.todos[todo_id].timer_started_at = None
    THEN [db |-> [db EXCEPT !.todos[todo_id].actual_duration =
                     total_duration_minutes(
                        LoadTimeEntries(db.todos[todo_id].time_entries))],
          ret |-> None]
    ELSE
    LET db_todo == db.todos[todo_id]
        time_entries ==
            Append(LoadTimeEntries(db_todo.time_entries),
                   [start |-> db_todo.timer_started_at, end |-> t,
                    duration |-> duration_seconds(db_todo.timer_started_at, t)])
    IN [db |-> [db EXCEPT
                  !.todos[todo_id].time_entries = json_dumps(time_entries),
                  !.todos[todo_id].actual_duration =
                        total_duration_minutes(time_entries),
                  !.todos[todo_id].timer_started_at = None],
        ret |-> todo_id]

stop_timer(db, todo_id, t) ==
    IF todo_id \notin DOMAIN db.todos THEN [db |-> db, ret |-> None]
    ELSE IF db.todos[todo_id].timer_started_at = None THEN [db |-> db, ret |-> None]
    ELSE
    LET db_todo == db.todos[todo_id]
        time_entries ==
            Append(LoadTimeEntries(db_todo.time_entries),
                   [start |-> db_todo.timer_started_at, end |-> t,
                    duration |-> duration_seconds(db_todo.timer_started_at, t)])
    IN [db |-> [db EXCEPT
                  !.todos[todo_id].time_entries = json_dumps(time_entries),
                  !.todos[todo_id].actual_duration =
                        total_duration_minutes(time_entries),
                  !.todos[todo_id].timer_started_at = None],
        ret |-> todo_id]

create_template(db, todo_id, template_name) ==
    IF todo_id \notin DOMAIN db.todos THEN [db |-> db, ret |-> None]
    ELSE [db |-> [db EXCEPT !.todos[todo_id].is_template = TRUE,
                            !.todos[todo_id].template_name = template_name],
          ret |-> todo_id]

\* A variant in which the activity entries of the todo cascade as well.
SessionDelete_EntriesCascade(db, todo_id) ==
    [db EXCEPT
        !.todos = [i \in DOMAIN db.todos \ {todo_id} |->
                     [db.todos[i] EXCEPT
                         !.parent_id = IF @ = todo_id THEN None ELSE @,
                         !.dependencies = @ \ {todo_id}]],
        !.comments = SelectSeq(@, LAMBDA c : c.todo_id # todo_id),
        !.activity_logs = SelectSeq(@, LAMBDA a : a.todo_id # todo_id)]

\* Session.delete(db_todo) and the flush of the commit, by the relationships of
\* models.Todo: the comments cascade ("all, delete-orphan"); the rows of the
\* one-to-many side of the parent_id relationship (the children) get
\* parent_id NULL; the todo_dependencies rows naming the todo on either side
\* are deleted.  Nothing maps activity_logs or original_todo_id to the todo,
\* so those rows are not touched.
SessionDelete(db, todo_id) ==
    [db EXCEPT
        !.todos = [i \in DOMAIN db.todos \ {todo_id} |->
                     [db.todos[i] EXCEPT
                         !.parent_id = IF @ = todo_id THEN None ELSE @,
                         !.dependencies = @ \ {todo_id}]],
        !.comments = SelectSeq(@, LAMBDA c : c.todo_id # todo_id)]

\* An enforced foreign key refuses the delete while an activity entry (there
\* is one from the creation on) points at the todo.
\* A variant that deletes without an activity entry.
delete_todo_WithoutEntry(db, todo_id, user_id, t) ==
    IF todo_id \notin DOMAIN db.todos
    THEN [db |-> db, ret |-> None, raised |-> NoneStr]
    ELSE [db |-> SessionDelete(db, todo_id), ret |-> todo_id, raised |-> NoneStr]

delete_todo(db, todo_id, user_id, t) ==
    IF todo_id \notin DOMAIN db.todos
    THEN [db |-> db, ret |-> None, raised |-> NoneStr]
    ELSE IF /\ ForeignKeysEnforced
            /\ \E k \in DOMAIN db.activity_logs :
                   db.activity_logs[k].todo_id = todo_id
    THEN [db |-> db, ret |-> None, raised |-> "IntegrityError"]
    ELSE [db |-> log_activity(SessionDelete(db, todo_id), todo_id, user_id,
                              "deleted", [title |-> db.todos[todo_id].title], t),
          ret |-> todo_id, raised |-> NoneStr]

complete_pomodoro(db, todo_id) ==
    IF todo_id \notin DOMAIN db.todos THEN [db |-> db, ret |-> None]
    ELSE [db |-> [db EXCEPT !.todos[todo_id].pomodoro_count = @ + 1],
          ret |-> todo_id]

\* A variant that takes any todo for a template.
create_from_template_OfAnyTodo(db, template_id, user_id, t) ==
    IF template_id \notin DOMAIN db.todos
    THEN [db |-> db, ret |-> None]
    ELSE
    LET template == db.todos[template_id]
        new_todo_data == [title |-> template.title, priority |-> template.priority,
                          category_id |-> template.category_id,
                          is_template |-> FALSE, created_by |-> user_id,
                          tags |-> template.tags]
    IN [db |-> InsertTodo(db, new_todo_data, t), ret |-> db.next_id]

create_from_template(db, template_id, user_id, t) ==
    IF template_id \notin DOMAIN db.todos \/ ~db.todos[template_id].is_template
    THEN [db |-> db, ret |-> None]
    ELSE
    LET template == db.todos[template_id]
        new_todo_data == [title |-> template.title, priority |-> template.priority,
                          category_id |-> template.category_id,
                          is_template |-> FALSE, created_by |-> user_id,
                          tags |-> template.tags]
    IN [db |-> InsertTodo(db, new_todo_data, t), ret |-> db.next_id]

\* models.Comment(**comment.dict()), added and committed.
create_comment(db, comment, t) ==
    IF ForeignKeysEnforced /\ comment.todo_id \notin DOMAIN db.todos
    THEN [db |-> db, ret |-> None, raised |-> "IntegrityError"]
    ELSE [db |-> [db EXCEPT !.comments =
                     Append(@, [todo_id |-> comment.todo_id,
                                user_id |-> comment.user_id,
                                content |-> comment.content, created_at |-> t])],
          ret |-> Len(db.comments) + 1, raised |-> NoneStr]

\* create_tag / create_user: one more row, under the next id.
create_tag(db) == [db EXCEPT !.tags = @ \cup {Cardinality(@) + 1}]
create_user(db) == [db EXCEPT !.users = @ \cup {Cardinality(@) + 1}]

\* A variant whose month is the 31 days of the original's month.
RecurrenceDays_MonthLength(pattern) ==
    CASE pattern = "DAILY" -> 1
      [] pattern = "WEEKLY" -> 7
      [] pattern = "MONTHLY" -> 31
      [] pattern = "YEARLY" -> 365

\* timedelta(days=1), timedelta(weeks=1), timedelta(days=30), timedelta(days=365)
RecurrenceDays(pattern) ==
    CASE pattern = "DAILY" -> 1
      [] pattern = "WEEKLY" -> 7
      [] pattern = "MONTHLY" -> 30
      [] pattern = "YEARLY" -> 365

\* A variant that tests the original's due date against the end date.
PastEndDate_OfOriginal(original, next_due) ==
    /\ original.recurrence_end_date # None
    /\ original.due_date > original.recurrence_end_date

\* Line 364: original.recurrence_end_date and next_due > recurrence_end_date
PastEndDate(original, next_due) ==
    /\ original.recurrence_end_date # None
    /\ next_due > original.recurrence_end_date

\* raised is the exception that escapes: with a NULL pattern next_due is None
\* (line 361) and its comparison with the end date is a TypeError.
create_recurring_instance(db, original_todo_id, t) ==
    IF original_todo_id \notin DOMAIN db.todos
    THEN [db |-> db, ret |-> None, raised |-> NoneStr]
    ELSE
    LET original == db.todos[original_todo_id]
        next_due == IF original.recurrence_pattern \in RecurrencePattern \ {"NONE"}
                    THEN original.due_date
                            + RecurrenceDays(original.recurrence_pattern) * UnitsPerDay
                    ELSE None
        refused == [db |-> db, ret |-> None, raised |-> NoneStr]
    IN IF original.recurrence_pattern = "NONE" THEN refused
       ELSE IF original.due_date = None THEN refused
       ELSE IF original.recurrence_end_date # None /\ next_due = None
            THEN [db |-> db, ret |-> None, raised |-> "TypeError"]
       ELSE IF PastEndDate(original, next_due) THEN refused
       ELSE [db |-> InsertTodo(db,
                      [ title |-> original.title,
                        priority |-> original.priority,
                        status |-> "PENDING",
                        due_date |-> next_due,
                        category_id |-> original.category_id,
                        original_todo_id |-> original_todo_id,
                        recurrence_pattern |-> original.recurrence_pattern,
                        recurrence_end_date |-> original.recurrence_end_date ], t),
             ret |-> db.next_id, raised |-> NoneStr]

(***************************************************************************)
(* crud.py: the queries.                                                   *)
(***************************************************************************)

Rows(db) == {db.todos[i] : i \in DOMAIN db.todos}

\* The sequences that list every member of S once.
Perms(S) ==
    {p \in [1..Cardinality(S) -> S] : \A i, j \in DOMAIN p : p[i] = p[j] => i = j}

Min2(a, b) == IF a <= b THEN a ELSE b

\* A variant that ranks the priorities from low to urgent.
priority_order_LowFirst(priority) ==
    CASE priority = "LOW" -> 1
      [] priority = "MEDIUM" -> 2
      [] priority = "HIGH" -> 3
      [] priority = "URGENT" -> 4
      [] OTHER -> 5

\* The case() expression of lines 51-57.
priority_order(priority) ==
    CASE priority = "URGENT" -> 1
      [] priority = "HIGH" -> 2
      [] priority = "MEDIUM" -> 3
      [] priority = "LOW" -> 4
      [] OTHER -> 5

\* order_field of a row.  Titles are not ordered here: sort_by = "title" is
\* outside the requests the model sends.
order_field(row, sort_by) ==
    CASE sort_by = "due_date" -> row.due_date
      [] sort_by = "priority" -> priority_order(row.priority)
      [] OTHER -> row.created_at

\* ORDER BY: rows with equal keys come in any order, and so does a NULL key
\* against the others (the engine decides where NULLs sort).
InOrder(a, b, sort_by, sort_order) ==
    LET ka == order_field(a, sort_by)
        kb == order_field(b, sort_by)
    IN \/ sort_by = "due_date" /\ (ka = None \/ kb = None)
       \/ IF sort_order = "asc" THEN ka <= kb ELSE ka >= kb

\* A variant that leaves archived todos out only when include_archived is
\* not given.
Matches_ArchivedUnlessAbsent(row, args) ==
    /\ row.parent_id = None
    /\ "include_archived" \in DOMAIN args \/ row.is_archived = FALSE
    /\ "completed" \in DOMAIN args =>
            row.status = (IF args["completed"] THEN "COMPLETED" ELSE "PENDING")
    /\ "priority" \in DOMAIN args =>
            LET priority_enum == getattr(PriorityLevel, upper(args["priority"]))
            IN priority_enum # NoneStr => row.priority = priority_enum
    /\ "status" \in DOMAIN args =>
            LET status_enum == getattr(StatusLevel, upper(args["status"]))
            IN status_enum # NoneStr => row.status = status_enum

\* The filters of get_todos (lines 14-45) on one row.  args holds the keyword
\* arguments that are not None; search and category are never passed.
Matches(row, args) ==
    /\ row.parent_id = None
    /\ ("include_archived" \in DOMAIN args /\ args["include_archived"])
            \/ row.is_archived = FALSE
    /\ "completed" \in DOMAIN args =>
            row.status = (IF args["completed"] THEN "COMPLETED" ELSE "PENDING")
    /\ "priority" \in DOMAIN args =>
            LET priority_enum == getattr(PriorityLevel, upper(args["priority"]))
            IN priority_enum # NoneStr => row.priority = priority_enum
    /\ "status" \in DOMAIN args =>
            LET status_enum == getattr(StatusLevel, upper(args["status"]))
            IN status_enum # NoneStr => row.status = status_enum

Arg(args, key, default) == IF key \in DOMAIN args THEN args[key] ELSE default

\* get_todos: the lists of ids the query may return.
get_todos(db, args) ==
    LET matching == {r \in Rows(db) : Matches(r, args)}
        sort_by == Arg(args, "sort_by", "created_at")
        sort_order == Arg(args, "sort_order", "desc")
        skip == Arg(args, "skip", 0)
        limit == Arg(args, "limit", 100)
        ordered == {p \in Perms(matching) :
                      \A i, j \in DOMAIN p :
                         i < j => InOrder(p[i], p[j], sort_by, sort_order)}
    IN {[i \in 1..(Min2(Len(p), skip + limit) - Min2(Len(p), skip)) |->
            p[i + skip].id] : p \in ordered}

\* query.filter(created_by == user_id) when user_id is truthy
Scoped(rows, user_id) ==
    IF user_id # None /\ user_id # 0
    THEN {r \in rows : r.created_by = user_id}
    ELSE rows

RECURSIVE SumField(_, _)
SumField(rows, field) ==
    IF rows = {} THEN 0
    ELSE LET r == CHOOSE x \in rows : TRUE
         IN r[field] + SumField(rows \ {r}, field)

\* round(num / den) for num >= 0, den > 0, ties to even as Python rounds
RoundDiv(num, den) ==
    LET q == num \div den
        r == num % den
    IN IF 2 * r < den THEN q
       ELSE IF 2 * r > den THEN q + 1
       ELSE IF q % 2 = 0 THEN q ELSE q + 1

RECURSIVE SortDesc(_)
\* order_by(desc(completed_at))
SortDesc(rows) ==
    IF rows = {} THEN <<>>
    ELSE LET m == CHOOSE x \in rows : \A y \in rows : x.completed_at >= y.completed_at
         IN <<m>> \o SortDesc(rows \ {m})

RECURSIVE StreakWalk(_, _, _)
\* The loop of lines 499-506 over the remaining todos.
StreakWalk(completed_todos, streak, current_date) ==
    IF completed_todos = <<>> THEN streak
    ELSE LET todo_date == date(Head(completed_todos).completed_at)
         IN IF todo_date = current_date \/ todo_date = current_date - streak
            THEN IF todo_date = current_date - streak
                 THEN StreakWalk(Tail(completed_todos), streak + 1, todo_date)
                 ELSE StreakWalk(Tail(completed_todos), streak, current_date)
            ELSE streak

calculate_streak(db, user_id, t) ==
    LET completed_todos ==
            SortDesc(Scoped({r \in Rows(db) : /\ r.status = "COMPLETED"
                                              /\ r.completed_at # None}, user_id))
    IN IF completed_todos = <<>> THEN 0
       ELSE StreakWalk(completed_todos, 0, date(t))

\* Enum.value of a member
value(member) ==
    CASE member = "PENDING" -> "pending"
      [] member = "IN_PROGRESS" -> "in_progress"
      [] member = "COMPLETED" -> "completed"
      [] member = "CANCELLED" -> "cancelled"
      [] member = "LOW" -> "low"
      [] member = "MEDIUM" -> "medium"
      [] member = "HIGH" -> "high"
      [] member = "URGENT" -> "urgent"

RECURSIVE SumElapsed(_)
\* the sum func.avg() takes over completed_at - created_at
SumElapsed(rows) ==
    IF rows = {} THEN 0
    ELSE LET r == CHOOSE x \in rows : TRUE
         IN (r.completed_at - r.created_at) + SumElapsed(rows \ {r})

\* Lines 450-453 and 476: the mean of completed_at - created_at, in
\* hundredths of an hour; None when there is no such todo or the mean is 0.
\* The query is db.query(...), not the scoped query.
average_completion_time(db, user_id) ==
    LET done == {r \in Rows(db) : r.completed_at # None}
        total_elapsed == SumElapsed(done)
    IN IF done = {} \/ total_elapsed = 0 THEN None
       ELSE RoundDiv(total_elapsed,
                     Cardinality(done) * UnitsPerSecond * (SecondsPerHour \div 100))

get_todo_stats(db, user_id, t) ==
    LET today_start == midnight(t)
        query == Scoped(Rows(db), user_id)
        Count(status) == Cardinality({r \in query : r.status = status})
        total == Cardinality(query)
        completed == Count("COMPLETED")
    IN [ total |-> total,
         completed |-> completed,
         pending |-> Count("PENDING"),
         in_progress |-> Count("IN_PROGRESS"),
         overdue |-> Cardinality({r \in query : /\ r.due_date # None
                                                /\ r.due_date < t
                                                /\ r.status # "COMPLETED"}),
         due_today |-> Cardinality({r \in query : /\ r.due_date # None
                                                  /\ r.due_date >= today_start
                                                  /\ r.due_date < today_start + UnitsPerDay
                                                  /\ r.status # "COMPLETED"}),
         by_priority |-> [p \in {value(m) : m \in PriorityLevel} |->
                            Cardinality({r \in query : value(r.priority) = p})],
         by_category |-> [n \in {db.categories[c] : c \in DOMAIN db.categories} |->
                            Cardinality({r \in query :
                                /\ r.category_id \in DOMAIN db.categories
                                /\ db.categories[r.category_id] = n})],
         by_status |-> [s \in {value(m) : m \in StatusLevel} |->
                            Cardinality({r \in query : value(r.status) = s})],
         completion_rate |-> IF total > 0 THEN RoundDiv(completed * 10000, total) ELSE 0,
         average_completion_time |-> average_completion_time(db, user_id),
         total_time_tracked |->
            SumField({r \in query : r.actual_duration # None}, "actual_duration"),
         pomodoros_completed |-> SumField(query, "pomodoro_count"),
         streak_days |-> calculate_streak(db, user_id, t) ]

\* One bucket of get_productivity_trends (the body of the loop, lines 522-560).
TrendBucket(db, start_date, i, user_id) ==
    LET d == start_date + i * UnitsPerDay
        date_start == midnight(d)
        date_end == date_start + UnitsPerDay
        query == Scoped(Rows(db), user_id)
        on_date == {r \in query : /\ r.completed_at # None
                                  /\ r.completed_at >= date_start
                                  /\ r.completed_at < date_end}
    IN [ label |-> date(d),
         completed |-> Cardinality(on_date),
         created |-> Cardinality({r \in query : /\ r.created_at >= date_start
                                                /\ r.created_at < date_end}),
         time_spent |->
            SumField({r \in on_date : r.actual_duration # None}, "actual_duration") ]

\* labels are the calendar days the "%m/%d" strings name.
get_productivity_trends(db, days, user_id, t) ==
    LET start_date == t - days * UnitsPerDay
        bucket == [i \in 1..days |-> TrendBucket(db, start_date, i - 1, user_id)]
    IN [ labels |-> [i \in 1..days |-> bucket[i].label],
         completed |-> [i \in 1..days |-> bucket[i].completed],
         created |-> [i \in 1..days |-> bucket[i].created],
         time_spent |-> [i \in 1..days |-> bucket[i].time_spent] ]

(***************************************************************************)
(* routers/todo.py: the request handlers, one action each.  `last` is the  *)
(* request and what the handler reported: status_code 200 when it          *)
(* returned, the HTTPException's status_code and detail when it raised     *)
(* one, 500 when an exception escaped it.  The serialisation of the        *)
(* returned value is not part of the model.                                *)
(***************************************************************************)

Store(db) ==
    /\ todos' = db.todos
    /\ activity_logs' = db.activity_logs
    /\ comments' = db.comments
    /\ tags' = db.tags
    /\ users' = db.users
    /\ next_id' = db.next_id
    /\ ever_completed' = ever_completed \cup
            {i \in DOMAIN db.todos : db.todos[i].status = "COMPLETED"}
    /\ UNCHANGED <<categories, now>>

\* A request that runs from its first statement to its answer with no other
\* request in between: the sessions of the requests in flight keep what they
\* have loaded.
Commit(db) == Store(db) /\ UNCHANGED <<sessions, pomodoro_ok>>

Outcome(op, todo_id, status_code, detail, ret) ==
    [op |-> op, todo_id |-> todo_id, status_code |-> status_code,
     detail |-> detail, ret |-> ret]

\* POST /todos/ (crud.create_todo is called without a user_id)
CreateTodoReq(todo) ==
    LET r == create_todo(DB, todo, None, now)
    IN /\ Commit(r.db)
       /\ last' = Outcome("create_todo", r.ret, 200, "", r.ret)

\* PUT /todos/{todo_id}; the body of the request is kept with the outcome.
UpdateTodoReq(todo_id, todo) ==
    LET r == update_todo(DB, todo_id, todo, None, now)
    IN /\ Commit(r.db)
       /\ last' = [todo |-> todo] @@
                  (IF r.ret = None
                   THEN Outcome("update_todo", todo_id, 404, "Todo not found", None)
                   ELSE Outcome("update_todo", todo_id, 200, "", r.ret))

\* POST /todos/bulk/complete, /todos/bulk/archive
BulkReq(op, todo_ids, update_data) ==
    LET r == bulk_update_todos(DB, todo_ids, update_data, None, now)
    IN /\ Commit(r.db)
       /\ last' = IF r.raised # NoneStr
                  THEN Outcome(op, None, 500, "Internal Server Error", None)
                  ELSE Outcome(op, None, 200, "", r.ret)

BulkCompleteReq(todo_ids) ==
    BulkReq("bulk_complete", todo_ids, [status |-> "completed"])

BulkArchiveReq(todo_ids) ==
    BulkReq("bulk_archive", todo_ids, [is_archived |-> TRUE])

\* POST /todos/{todo_id}/timer/start
StartTimerReq(todo_id) ==
    LET r == start_timer(DB, todo_id, now)
    IN /\ Commit(r.db)
       /\ last' = IF r.ret = None
                  THEN Outcome("start_timer", todo_id, 404, "Todo not found", None)
                  ELSE Outcome("start_timer", todo_id, 200, "", r.ret)

\* The outcome of POST /todos/{todo_id}/timer/stop, by what crud.stop_timer gave.
StopTimerOutcome(todo_id, ret) ==
    IF ret = None
    THEN Outcome("stop_timer", todo_id, 404,
                 "Todo not found or timer not running", None)
    ELSE Outcome("stop_timer", todo_id, 200, "", ret)

StopTimerReq(todo_id) ==
    LET r == stop_timer(DB, todo_id, now)
    IN /\ Commit(r.db)
       /\ last' = StopTimerOutcome(todo_id, r.ret)

\* POST /todos/{todo_id}/make-template
MakeTemplateReq(todo_id, template_name) ==
    LET r == create_template(DB, todo_id, template_name)
    IN /\ Commit(r.db)
       /\ last' = IF r.ret = None
                  THEN Outcome("make_template", todo_id, 404, "Todo not found", None)
                  ELSE Outcome("make_template", todo_id, 200, "", r.ret)

\* The lines of a text: the title with a line break has two, any other one.
TwoLines == "a\nBEGIN:VEVENT"
splitlines(text) == IF text = TwoLines THEN <<"a", "BEGIN:VEVENT">> ELSE <<text>>

\* export_csv: csv.writer writes the header and one row for each todo of the
\* list (a field with a line break is quoted, so it stays one field of its
\* row).  Of the ten fields the id, the title and the due date are kept.
export_csv(db, listed) ==
    <<(<<"ID", "Title", "Due Date">>)>> \o
    [k \in DOMAIN listed |->
        LET todo == db.todos[listed[k]]
        IN <<ToString(todo.id), todo.title,
             IF todo.due_date # None THEN ToString(todo.due_date) ELSE "">>]

\* export_ics: the text, as its lines.  The title goes into the SUMMARY line
\* as it is.
RECURSIVE export_ics(_, _)
export_ics(db, listed) ==
    IF listed = <<>> THEN <<>>
    ELSE LET todo == db.todos[Head(listed)]
             summary == splitlines(todo.title)
             event == <<"BEGIN:VEVENT", "UID:" \o ToString(todo.id)>>
                      \o <<"SUMMARY:" \o Head(summary)>> \o Tail(summary)
                      \o <<"STATUS:" \o (IF todo.status = "COMPLETED"
                                          THEN "COMPLETED" ELSE "NEEDS-ACTION"),
                           "END:VEVENT">>
         IN (IF todo.due_date # None THEN event ELSE <<>>)
            \o export_ics(db, Tail(listed))

\* GET /todos/export/csv
ExportCsvReq(args) ==
    /\ \E listed \in get_todos(DB, args @@ [limit |-> 10000]) :
          last' = [op |-> "export_csv", args |-> args, status_code |-> 200,
                   detail |-> "", ret |-> export_csv(DB, listed)]
    /\ UNCHANGED <<todos, categories, activity_logs, comments, tags, users,
                   next_id, now, ever_completed, sessions, pomodoro_ok>>

\* GET /todos/export/ics
ExportIcsReq ==
    /\ \E listed \in get_todos(DB, [limit |-> 10000]) :
          last' = [op |-> "export_ics", status_code |-> 200, detail |-> "",
                   ret |-> <<"BEGIN:VCALENDAR", "VERSION:2.0",
                             "PRODID:-//Todo App//EN">>
                           \o export_ics(DB, listed) \o <<"END:VCALENDAR">>]
    /\ UNCHANGED <<todos, categories, activity_logs, comments, tags, users,
                   next_id, now, ever_completed, sessions, pomodoro_ok>>

\* GET /todos/{todo_id}: crud.get_todo gives the row or None.
ReadTodoReq(todo_id) ==
    /\ last' = IF todo_id \notin DOMAIN DB.todos
               THEN Outcome("read_todo", todo_id, 404, "Todo not found", None)
               ELSE Outcome("read_todo", todo_id, 200, "", todo_id)
    /\ UNCHANGED <<todos, categories, activity_logs, comments, tags, users,
                   next_id, now, ever_completed, sessions, pomodoro_ok>>

\* DELETE /todos/{todo_id}
DeleteTodoReq(todo_id) ==
    LET r == delete_todo(DB, todo_id, None, now)
    IN /\ Commit(r.db)
       /\ last' = IF r.raised # NoneStr
                  THEN Outcome("delete_todo", todo_id, 500,
                               "Internal Server Error", None)
                  ELSE IF r.ret = None
                  THEN Outcome("delete_todo", todo_id, 404, "Todo not found", None)
                  ELSE Outcome("delete_todo", todo_id, 200, "", r.ret)

\* POST /todos/bulk/delete: crud.delete_todo for each id of the list, in order;
\* the message counts the ids of the list.
RECURSIVE DeleteEach(_, _, _)
DeleteEach(db, todo_ids, t) ==
    IF todo_ids = <<>> THEN db
    ELSE DeleteEach(delete_todo(db, Head(todo_ids), None, t).db, Tail(todo_ids), t)

BulkDeleteReq(todo_ids) ==
    /\ Commit(DeleteEach(DB, todo_ids, now))
    /\ last' = [Outcome("bulk_delete", None, 200, "", Len(todo_ids))
                   EXCEPT !.todo_id = todo_ids]

\* POST /todos/{todo_id}/pomodoro/complete
Answered(todo_id) ==
    IF todo_id \in DOMAIN pomodoro_ok THEN pomodoro_ok[todo_id] ELSE 0

PomodoroReq(todo_id) ==
    LET r == complete_pomodoro(DB, todo_id)
    IN /\ Store(r.db)
       /\ pomodoro_ok' = IF r.ret = None THEN pomodoro_ok
                         ELSE (todo_id :> Answered(todo_id) + 1) @@ pomodoro_ok
       /\ UNCHANGED sessions
       /\ last' = IF r.ret = None
                  THEN Outcome("complete_pomodoro", todo_id, 404,
                               "Todo not found", None)
                  ELSE Outcome("complete_pomodoro", todo_id, 200, "", r.ret)

\* The same request in the two steps another request can come between.  The
\* first is get_todo in the request's own Session: None is answered with 404
\* at once, a row is kept by the Session with the count it was loaded with.
PomodoroGet(s, todo_id) ==
    /\ s \notin DOMAIN sessions
    /\ IF todo_id \notin DOMAIN DB.todos
       THEN /\ last' = Outcome("complete_pomodoro", todo_id, 404,
                               "Todo not found", None)
            /\ UNCHANGED sessions
       ELSE /\ last' = [op |-> "get_todo", todo_id |-> todo_id]
            /\ sessions' = (s :> [todo_id |-> todo_id,
                                  pomodoro_count |->
                                      get_todo(DB, todo_id).pomodoro_count])
                           @@ sessions
    /\ UNCHANGED <<todos, categories, activity_logs, comments, tags, users,
                   next_id, now, ever_completed, pomodoro_ok>>

\* The second is "db_todo.pomodoro_count += 1" on the loaded row and
\* db.commit(): UPDATE todos SET pomodoro_count = <loaded + 1> WHERE id = ...;
\* the refresh, the answer and the close of the Session follow.  An UPDATE
\* that finds no row (the todo was deleted meanwhile) raises StaleDataError.
PomodoroCommit(s) ==
    /\ s \in DOMAIN sessions
    /\ LET todo_id == sessions[s].todo_id
           count == sessions[s].pomodoro_count + 1
       IN IF todo_id \notin DOMAIN todos
          THEN /\ last' = Outcome("complete_pomodoro", todo_id, 500,
                                  "Internal Server Error", None)
               /\ UNCHANGED <<todos, pomodoro_ok>>
          ELSE /\ todos' = [todos EXCEPT ![todo_id].pomodoro_count = count]
               /\ pomodoro_ok' = (todo_id :> Answered(todo_id) + 1) @@ pomodoro_ok
               /\ last' = Outcome("complete_pomodoro", todo_id, 200, "", todo_id)
    /\ sessions' = [x \in DOMAIN sessions \ {s} |-> sessions[x]]
    /\ UNCHANGED <<categories, activity_logs, comments, tags, users, next_id,
                   now, ever_completed>>

\* POST /todos/templates/{template_id}/create
CreateFromTemplateReq(template_id) ==
    LET r == create_from_template(DB, template_id, None, now)
    IN /\ Commit(r.db)
       /\ last' = IF r.ret = None
                  THEN Outcome("create_from_template", template_id, 404,
                               "Template not found", None)
                  ELSE Outcome("create_from_template", template_id, 200, "", r.ret)

\* POST /todos/comments/
CreateCommentReq(comment) ==
    LET r == create_comment(DB, comment, now)
    IN /\ Commit(r.db)
       /\ last' = IF r.raised # NoneStr
                  THEN Outcome("create_comment", comment.todo_id, 500,
                               "Internal Server Error", None)
                  ELSE Outcome("create_comment", comment.todo_id, 200, "", r.ret)

\* A tag or a user is added to its table.
CreateTagReq ==
    /\ Commit(create_tag(DB))
    /\ last' = [op |-> "create_tag"]

CreateUser ==
    /\ Commit(create_user(DB))
    /\ last' = [op |-> "create_user"]

\* The outcome of POST /todos/{todo_id}/recurring/create-next.
CreateNextOutcome(todo_id, ret) ==
    IF ret = None
    THEN Outcome("create_next", todo_id, 400,
                 "Cannot create recurring instance", None)
    ELSE Outcome("create_next", todo_id, 200, "", ret)

CreateNextReq(todo_id) ==
    LET r == create_recurring_instance(DB, todo_id, now)
    IN /\ Commit(r.db)
       /\ last' = IF r.raised # NoneStr
                  THEN Outcome("create_next", todo_id, 500,
                               "Internal Server Error", None)
                  ELSE CreateNextOutcome(todo_id, r.ret)

\* GET /todos/
ReadTodosReq(args) ==
    /\ \E result \in get_todos(DB, args) :
          last' = [op |-> "read_todos", args |-> args, status_code |-> 200,
                   detail |-> "", ret |-> result]
    /\ UNCHANGED <<todos, categories, activity_logs, comments, tags, users,
                   next_id, now, ever_completed, sessions, pomodoro_ok>>

\* The clock advances between requests.
Tick(d) ==
    /\ now' = now + d
    /\ last' = [op |-> "tick"]
    /\ UNCHANGED <<todos, categories, activity_logs, comments, tags, users,
                   next_id, ever_completed, sessions, pomodoro_ok>>

(***************************************************************************)
(* What keeps the reachable states finite: the rows ever inserted, the     *)
(* activity entries, the time entries in the store, the clock.             *)
(***************************************************************************)
RoomForTodo(n) == next_id <= n
RoomInLog(k, n) == Len(activity_logs) + k <= n
RoomForEntry(todo_id) ==
    (todo_id \in DOMAIN todos /\ todos[todo_id].timer_started_at # None) =>
        SumSeq([i \in 1..(next_id - 1) |->
                  IF i \in DOMAIN todos
                  THEN Len(LoadTimeEntries(todos[i].time_entries)) ELSE 0])
            < MaxEntries
RoomOnClock(d, n) == now + d <= n * ClockStep

\* Ids requests name: the rows that can exist and one that never does.
Ids(n) == 1..(n + 1)
IdLists(n) == {SetToSeq(S) : S \in SUBSET Ids(n)}

Init ==
    /\ todos = <<>>
    /\ categories = <<>>
    /\ activity_logs = <<>>
    /\ comments = <<>>
    /\ tags = {}
    /\ users = {}
    /\ next_id = 1
    /\ now = 0
    /\ last = [op |-> "init"]
    /\ ever_completed = {}
    /\ sessions = <<>>
    /\ pomodoro_ok = <<>>

(***************************************************************************)
(* Spec: create, update, bulk complete, bulk archive and the start of the   *)
(* timer, from the empty store.                                            *)
(***************************************************************************)
CreateInputs ==
    {Override(TodoCreateDefaults, x) :
        x \in {[status |-> "pending"], [status |-> "completed"]}}

UpdateInputs ==
    {<<>>, [status |-> "completed"], [status |-> "pending"]}

Next ==
    \/ \E todo \in CreateInputs :
          RoomForTodo(MaxTodos) /\ RoomInLog(1, MaxLog) /\ CreateTodoReq(todo)
    \/ \E todo_id \in Ids(MaxTodos), todo \in UpdateInputs :
          RoomInLog(1, MaxLog) /\ UpdateTodoReq(todo_id, todo)
    \/ \E todo_ids \in IdLists(MaxTodos) :
          RoomInLog(Len(todo_ids), MaxLog) /\ BulkCompleteReq(todo_ids)
    \/ \E todo_ids \in IdLists(MaxTodos) :
          RoomInLog(Len(todo_ids), MaxLog) /\ BulkArchiveReq(todo_ids)
    \/ \E todo_id \in Ids(MaxTodos) : StartTimerReq(todo_id)
    \/ RoomOnClock(ClockStep, MaxTicks) /\ Tick(ClockStep)

Spec == Init /\ [][Next]_vars

(***************************************************************************)
(* SpecUpdate: the rows create_todo leaves and every change of status      *)
(* update_todo can make to them, at different times.                       *)
(***************************************************************************)
StatusUpdateInputs ==
    {<<>>, [status |-> "completed"], [status |-> "pending"],
     [status |-> "in_progress"]}

NextUpdate ==
    \/ \E todo \in CreateInputs :
          RoomForTodo(UpdTodos) /\ RoomInLog(1, UpdLog) /\ CreateTodoReq(todo)
    \/ \E todo_id \in Ids(UpdTodos), todo \in StatusUpdateInputs :
          RoomInLog(1, UpdLog) /\ UpdateTodoReq(todo_id, todo)
    \/ RoomOnClock(ClockStep, UpdTicks) /\ Tick(ClockStep)

SpecUpdate == Init /\ [][NextUpdate]_vars

(***************************************************************************)
(* SpecTimer: the timer of a todo, with the manual edit of actual_duration *)
(* that stop_timer overwrites.                                             *)
(***************************************************************************)
TimerUpdateInputs == {[actual_duration |-> 5]}

NextTimer ==
    \/ RoomForTodo(TimerTodos) /\ RoomInLog(1, TimerLog)
          /\ CreateTodoReq(TodoCreateDefaults)
    \/ \E todo_id \in Ids(TimerTodos), todo \in TimerUpdateInputs :
          RoomInLog(1, TimerLog) /\ UpdateTodoReq(todo_id, todo)
    \/ \E todo_id \in Ids(TimerTodos) : StartTimerReq(todo_id)
    \/ \E todo_id \in Ids(TimerTodos) :
          RoomForEntry(todo_id) /\ StopTimerReq(todo_id)
    \/ RoomOnClock(ClockStep, TimerTicks) /\ Tick(ClockStep)

SpecTimer == Init /\ [][NextTimer]_vars

(***************************************************************************)
(* SpecStart: the timer started, stopped and started again on todos that   *)
(* update_todo has completed or cancelled.                                 *)
(***************************************************************************)
StartUpdateInputs == {[status |-> "completed"], [status |-> "cancelled"]}

NextStart ==
    \/ RoomForTodo(TimerTodos) /\ RoomInLog(1, TimerLog)
          /\ CreateTodoReq(TodoCreateDefaults)
    \/ \E todo_id \in Ids(TimerTodos), todo \in StartUpdateInputs :
          RoomInLog(1, TimerLog) /\ UpdateTodoReq(todo_id, todo)
    \/ \E todo_id \in Ids(TimerTodos) : StartTimerReq(todo_id)
    \/ \E todo_id \in Ids(TimerTodos) :
          RoomForEntry(todo_id) /\ StopTimerReq(todo_id)
    \/ RoomOnClock(ClockStep, TimerTicks) /\ Tick(ClockStep)

SpecStart == Init /\ [][NextStart]_vars

(***************************************************************************)
(* SpecRecur: recurring instances, beside the timer's stop, the other      *)
(* handler that refuses a request for the state the todo is in.            *)
(***************************************************************************)
DueDate == 2 * UnitsPerDay

RecurCreateInputs ==
    {Override(TodoCreateDefaults, x) :
        x \in {[due_date |-> DueDate],
               [recurrence_pattern |-> "daily"],
               [recurrence_pattern |-> "daily", due_date |-> DueDate]}}

NextRecur ==
    \/ \E todo \in RecurCreateInputs :
          RoomForTodo(RecurTodos) /\ CreateTodoReq(todo)
    \/ \E todo_id \in Ids(RecurTodos) :
          RoomForTodo(RecurTodos) /\ CreateNextReq(todo_id)
    \/ \E todo_id \in Ids(RecurTodos) : StartTimerReq(todo_id)
    \/ \E todo_id \in Ids(RecurTodos) :
          RoomForEntry(todo_id) /\ StopTimerReq(todo_id)

SpecRecur == Init /\ [][NextRecur]_vars

(***************************************************************************)
(* SpecInstance: the originals create_todo and update_todo leave, with and *)
(* without a pattern, a due date and an end date, and the instances made   *)
(* of them and of their instances.                                         *)
(***************************************************************************)
Jan31 == 30 * UnitsPerDay

InstanceCreateInputs ==
    {Override(TodoCreateDefaults, x) :
        x \in {[due_date |-> Jan31],
               [recurrence_pattern |-> "daily"],
               [recurrence_pattern |-> "daily", due_date |-> Jan31],
               [recurrence_pattern |-> "monthly", due_date |-> Jan31],
               [recurrence_pattern |-> "yearly", due_date |-> Jan31],
               [recurrence_pattern |-> "weekly", due_date |-> Jan31,
                recurrence_end_date |-> Jan31 + 7 * UnitsPerDay],
               [recurrence_pattern |-> "weekly", due_date |-> Jan31,
                recurrence_end_date |-> Jan31 + 6 * UnitsPerDay]}}

\* An explicit null for the pattern.
InstanceUpdateInputs == {[recurrence_pattern |-> NoneStr]}

NextInstance ==
    \/ \E todo \in InstanceCreateInputs :
          RoomForTodo(InstTodos) /\ CreateTodoReq(todo)
    \/ \E todo_id \in Ids(InstTodos), todo \in InstanceUpdateInputs :
          UpdateTodoReq(todo_id, todo)
    \/ \E todo_id \in Ids(InstTodos) :
          LET r == create_recurring_instance(DB, todo_id, now)
          IN (r.ret # None => RoomForTodo(InstTodos)) /\ CreateNextReq(todo_id)

SpecInstance == Init /\ [][NextInstance]_vars

(***************************************************************************)
(* SpecArchive: todos archived and restored by update_todo and archived by *)
(* the bulk archive, and the list view under its filters, orders and       *)
(* pages, with and without the archived todos.                             *)
(***************************************************************************)
ArchiveCreateInputs ==
    {Override(TodoCreateDefaults, x) :
        x \in {<<>>, [status |-> "completed", priority |-> "high"]}}

ArchiveUpdateInputs == {[is_archived |-> TRUE], [is_archived |-> FALSE]}

ArchiveArgs ==
    {f @@ o @@ p @@ a :
        f \in {<<>>, [completed |-> TRUE], [status |-> "pending", priority |-> "medium"]},
        o \in {<<>>, [sort_by |-> "priority", sort_order |-> "asc"]},
        p \in {<<>>, [skip |-> 1, limit |-> 1]},
        a \in {<<>>, [include_archived |-> FALSE], [include_archived |-> TRUE]}}

NextArchive ==
    \/ \E todo \in ArchiveCreateInputs :
          RoomForTodo(ArchTodos) /\ RoomInLog(1, ArchLog) /\ CreateTodoReq(todo)
    \/ \E todo_id \in Ids(ArchTodos), todo \in ArchiveUpdateInputs :
          RoomInLog(1, ArchLog) /\ UpdateTodoReq(todo_id, todo)
    \/ \E todo_ids \in IdLists(ArchTodos) :
          RoomInLog(Len(todo_ids), ArchLog) /\ BulkArchiveReq(todo_ids)
    \/ \E args \in ArchiveArgs : ReadTodosReq(args)

SpecArchive == Init /\ [][NextArchive]_vars

(***************************************************************************)
(* SpecSort: todos of every priority, and of none after an update with an  *)
(* explicit null, created in any order and listed by priority.             *)
(***************************************************************************)
SortCreateInputs ==
    {Override(TodoCreateDefaults, [priority |-> p]) :
        p \in {"low", "medium", "high", "urgent"}}

SortUpdateInputs == {[priority |-> NoneStr]}

SortArgs ==
    {<<>>, [sort_by |-> "priority"],
     [sort_by |-> "priority", sort_order |-> "asc"],
     [sort_by |-> "priority", sort_order |-> "desc"]}

NextSort ==
    \/ \E todo \in SortCreateInputs :
          RoomForTodo(SortTodos) /\ CreateTodoReq(todo)
    \/ \E todo_id \in Ids(SortTodos), todo \in SortUpdateInputs :
          UpdateTodoReq(todo_id, todo)
    \/ \E args \in SortArgs : ReadTodosReq(args)

SpecSort == Init /\ [][NextSort]_vars

(***************************************************************************)
(* SpecList: the list view over a store of plain todos and templates.      *)
(***************************************************************************)
ListCreateInputs ==
    {Override(TodoCreateDefaults, x) :
        x \in {[status |-> "pending"], [status |-> "completed"],
               [status |-> "in_progress"]}}

ListArgs ==
    {<<>>, [status |-> "pending"], [status |-> "completed"],
     [status |-> "bogus"]}
    \cup {[completed |-> c] : c \in BOOLEAN}
    \cup {[completed |-> c, status |-> st] :
            c \in BOOLEAN, st \in {"pending", "completed", "in_progress"}}

NextList ==
    \/ \E todo \in ListCreateInputs :
          RoomForTodo(ListTodos) /\ CreateTodoReq(todo)
    \/ \E todo_id \in Ids(ListTodos) : MakeTemplateReq(todo_id, "tpl")
    \/ \E args \in ListArgs : ReadTodosReq(args)

SpecList == Init /\ [][NextList]_vars

(***************************************************************************)
(* SpecStats: the statistics, the streak and the trends are functions of   *)
(* the store and the clock.  The store is drawn from the stores that       *)
(* create_todo (called with a user_id) and update_todo leave behind: on    *)
(* each of the last MaxBack + 1 days, a few todos created in the morning   *)
(* and completed at noon; the requests are made in the evening of the last *)
(* day.                                                                    *)
(***************************************************************************)
Hour == SecondsPerHour * UnitsPerSecond
Today == MaxBack

\* What happened on one day: the todos completed on it, by creator; "r1" is a
\* todo of user 1 completed on that day and reopened since.
DayProfiles == {<<>>, <<"u1">>, <<"u1", "u1">>, <<"u2">>, <<"r1">>}

RECURSIVE PlanTodos(_, _)
PlanTodos(plan, d) ==
    IF d > MaxBack THEN <<>>
    ELSE [i \in 1..Len(plan[d]) |-> [day |-> d, kind |-> plan[d][i]]]
            \o PlanTodos(plan, d + 1)

PlannedRow(p, id) ==
    [TodoDefaults EXCEPT
        !.title = "a",
        !.status = IF p.kind = "r1" THEN "PENDING" ELSE "COMPLETED",
        !.completed_at = p.day * UnitsPerDay + 12 * Hour,
        !.created_by = IF p.kind = "u2" THEN 2 ELSE 1,
        !.category_id = IF p.kind = "u1" THEN 1 ELSE None,
        !.actual_duration = IF p.kind = "u1" THEN 25 ELSE None,
        !.pomodoro_count = IF p.kind = "u2" THEN 1 ELSE 0]
    @@ [id |-> id, created_at |-> p.day * UnitsPerDay + (IF p.kind = "u2" THEN 8 ELSE 9) * Hour]

InitStats ==
    \E plan \in [0..MaxBack -> DayProfiles] :
        LET planned == PlanTodos(plan, 0)
        IN /\ todos = [i \in 1..Len(planned) |-> PlannedRow(planned[i], i)]
           /\ categories = (1 :> "work")
           /\ comments = <<>>
           /\ tags = {}
           /\ users = {1, 2}
           /\ activity_logs =
                [i \in 1..Len(planned) |->
                    [todo_id |-> i, user_id |-> IF planned[i].kind = "u2" THEN 2 ELSE 1,
                     action |-> "created", details |-> json_dumps([title |-> "a"]),
                     timestamp |-> planned[i].day * UnitsPerDay
                                    + (IF planned[i].kind = "u2" THEN 8 ELSE 9) * Hour]]
           /\ next_id = Len(planned) + 1
           /\ now = Today * UnitsPerDay + 18 * Hour
           /\ last = [op |-> "init"]
           /\ ever_completed = 1..Len(planned)
           /\ sessions = <<>>
           /\ pomodoro_ok = [i \in 1..Len(planned) |->
                                PlannedRow(planned[i], i).pomodoro_count]

Users == {None, 1, 2}

Query(result) ==
    /\ last' = result
    /\ UNCHANGED <<todos, categories, activity_logs, comments, tags, users,
                   next_id, now, ever_completed, sessions, pomodoro_ok>>

CalculateStreak(user_id) ==
    Query([op |-> "calculate_streak", user_id |-> user_id,
           ret |-> calculate_streak(DB, user_id, now)])

\* GET /todos/stats/
StatsReq(user_id) ==
    Query([op |-> "get_todo_stats", user_id |-> user_id,
           ret |-> get_todo_stats(DB, user_id, now)])

\* GET /todos/analytics/productivity-trends/
TrendsReq(days, user_id) ==
    Query([op |-> "get_productivity_trends", user_id |-> user_id, days |-> days,
           ret |-> get_productivity_trends(DB, days, user_id, now)])

NextStats ==
    \/ \E user_id \in Users : CalculateStreak(user_id)
    \/ \E user_id \in Users : StatsReq(user_id)
    \/ \E days \in 1..MaxTrendDays, user_id \in Users : TrendsReq(days, user_id)

SpecStats == InitStats /\ [][NextStats]_vars

(***************************************************************************)
(* SpecLog: every operation that writes, on a store of recurring todos:    *)
(* create, update, delete, the bulk archive and the bulk delete, the       *)
(* timer, the pomodoro, the templates, the recurring instances, comments.  *)
(***************************************************************************)
LogCreateInputs ==
    {Override(TodoCreateDefaults,
              [recurrence_pattern |-> "daily", due_date |-> DueDate])}

LogUpdateInputs == {[title |-> "b"]}

LogComments(todo_ids) ==
    {[todo_id |-> i, user_id |-> None, content |-> "c"] : i \in todo_ids}

\* What the operations leave in the store: the activity entries, the todos
\* made without one (from a template, of a recurring todo), the comments, the
\* pomodoros, the time entries, the running timers, the templates.
Writes ==
    Len(activity_logs) + Len(comments) +
    SumSeq([i \in 1..(next_id - 1) |->
              IF i \in DOMAIN todos
              THEN todos[i].pomodoro_count
                   + Len(LoadTimeEntries(todos[i].time_entries))
                   + (IF todos[i].timer_started_at # None THEN 1 ELSE 0)
                   + (IF todos[i].is_template THEN 1 ELSE 0)
                   + (IF \E k \in DOMAIN activity_logs :
                            /\ activity_logs[k].todo_id = i
                            /\ activity_logs[k].action = "created"
                      THEN 0 ELSE 1)
              ELSE 0])
RoomToWrite(k, n) == Writes + k <= n

NextLog ==
    \/ \E todo \in LogCreateInputs :
          RoomForTodo(LogTodos) /\ RoomToWrite(1, LogWrites) /\ CreateTodoReq(todo)
    \/ \E todo_id \in Ids(LogTodos), todo \in LogUpdateInputs :
          RoomToWrite(1, LogWrites) /\ UpdateTodoReq(todo_id, todo)
    \/ \E todo_id \in Ids(LogTodos) :
          RoomToWrite(1, LogWrites) /\ DeleteTodoReq(todo_id)
    \/ \E todo_ids \in IdLists(LogTodos) :
          RoomToWrite(Len(todo_ids), LogWrites) /\ BulkArchiveReq(todo_ids)
    \/ \E todo_ids \in IdLists(LogTodos) :
          RoomToWrite(Len(todo_ids), LogWrites) /\ BulkDeleteReq(todo_ids)
    \/ \E todo_id \in Ids(LogTodos) :
          RoomToWrite(1, LogWrites) /\ StartTimerReq(todo_id)
    \/ \E todo_id \in Ids(LogTodos) : StopTimerReq(todo_id)
    \/ \E todo_id \in Ids(LogTodos) :
          RoomToWrite(1, LogWrites) /\ PomodoroReq(todo_id)
    \/ \E todo_id \in Ids(LogTodos) :
          RoomToWrite(1, LogWrites) /\ MakeTemplateReq(todo_id, "t")
    \/ \E template_id \in Ids(LogTodos) :
          RoomForTodo(LogTodos) /\ RoomToWrite(1, LogWrites)
             /\ CreateFromTemplateReq(template_id)
    \/ \E todo_id \in Ids(LogTodos) :
          RoomForTodo(LogTodos) /\ RoomToWrite(1, LogWrites)
             /\ CreateNextReq(todo_id)
    \/ \E comment \in LogComments(Ids(LogTodos)) :
          RoomToWrite(1, LogWrites) /\ CreateCommentReq(comment)
    \/ \E todo_id \in Ids(LogTodos) : ReadTodoReq(todo_id)

SpecLog == Init /\ [][NextLog]_vars

(***************************************************************************)
(* SpecDelete: todos with a parent and with a dependency, comments on      *)
(* todos that exist and on ids that do not, and the two deletes.           *)
(***************************************************************************)
DeleteCreateInputs ==
    {Override(TodoCreateDefaults, x) :
        x \in {<<>>, [parent_id |-> 1], [dependency_ids |-> {1}]}}

NextDelete ==
    \/ \E todo \in DeleteCreateInputs :
          RoomForTodo(DelTodos) /\ RoomToWrite(1, DelWrites) /\ CreateTodoReq(todo)
    \/ \E comment \in LogComments(Ids(DelTodos)) :
          RoomToWrite(1, DelWrites) /\ CreateCommentReq(comment)
    \/ \E todo_id \in Ids(DelTodos) :
          RoomToWrite(1, DelWrites) /\ DeleteTodoReq(todo_id)
    \/ \E todo_ids \in IdLists(DelTodos) :
          RoomToWrite(Len(todo_ids), DelWrites) /\ BulkDeleteReq(todo_ids)

SpecDelete == Init /\ [][NextDelete]_vars

(***************************************************************************)
(* SpecRepeat: create-next asked again and again of the same original and  *)
(* of its instances.                                                       *)
(***************************************************************************)
NextRepeat ==
    \/ \E todo \in RecurCreateInputs :
          RoomForTodo(RepTodos) /\ CreateTodoReq(todo)
    \/ \E todo_id \in Ids(RepTodos) :
          LET r == create_recurring_instance(DB, todo_id, now)
          IN (r.ret # None => RoomForTodo(RepTodos)) /\ CreateNextReq(todo_id)

SpecRepeat == Init /\ [][NextRepeat]_vars

(***************************************************************************)
(* SpecPomodoro: complete_pomodoro requests whose two steps interleave, on  *)
(* todos with and without a target, a delete between the steps included.    *)
(***************************************************************************)
PomodoroCreateInputs ==
    {Override(TodoCreateDefaults, x) : x \in {<<>>, [pomodoro_target |-> 1]}}

RoomForPomodoro ==
    Cardinality(DOMAIN sessions) + SumSeq([i \in 1..next_id |-> Answered(i)])
        < MaxPomodoros

NextPomodoro ==
    \/ \E todo \in PomodoroCreateInputs :
          RoomForTodo(PomTodos) /\ CreateTodoReq(todo)
    \/ \E todo_id \in Ids(PomTodos) : DeleteTodoReq(todo_id)
    \/ \E s \in 1..MaxSessions, todo_id \in Ids(PomTodos) :
          RoomForPomodoro /\ PomodoroGet(s, todo_id)
    \/ \E s \in 1..MaxSessions : PomodoroCommit(s)

SpecPomodoro == Init /\ [][NextPomodoro]_vars

(***************************************************************************)
(* SpecExport: the two exports over todos with and without a due date,     *)
(* completed and pending, top-level and subtask, archived and not, one     *)
(* with a title of two lines.                                              *)
(***************************************************************************)
ExportCreateInputs ==
    {Override(TodoCreateDefaults, x) :
        x \in {<<>>,
               [due_date |-> DueDate, status |-> "completed"],
               [due_date |-> DueDate, parent_id |-> 1],
               [due_date |-> DueDate, title |-> TwoLines]}}

ExportArgs == {<<>>, [status |-> "completed"]}

NextExport ==
    \/ \E todo \in ExportCreateInputs :
          RoomForTodo(ExpTodos) /\ CreateTodoReq(todo)
    \/ \E todo_ids \in IdLists(ExpTodos) :
          RoomInLog(Len(todo_ids), ExpLog) /\ BulkArchiveReq(todo_ids)
    \/ \E args \in ExportArgs : ExportCsvReq(args)
    \/ ExportIcsReq

SpecExport == Init /\ [][NextExport]_vars

(***************************************************************************)
(* SpecFields: todos created with and without tags, assignees and          *)
(* dependencies, and updates that send no key, scalar keys with the stored *)
(* and with new values, and relationship keys with ids, with the empty     *)
(* list and with null.                                                     *)
(***************************************************************************)
FieldCreateInputs ==
    {Override(TodoCreateDefaults, x) :
        x \in {<<>>,
               [tag_ids |-> {1}, assignee_ids |-> {1}, dependency_ids |-> {1}]}}

FieldUpdateInputs ==
    {<<>>,
     [title |-> "a"],
     [title |-> "b"],
     [title |-> "a", priority |-> "high"],
     [tag_ids |-> {}],
     [tag_ids |-> {1}],
     [assignee_ids |-> {}, dependency_ids |-> {}],
     [assignee_ids |-> {1}, dependency_ids |-> {1}],
     [title |-> "b", tag_ids |-> NoneList, assignee_ids |-> NoneList,
      dependency_ids |-> NoneList]}

NextFields ==
    \/ Cardinality(tags) < FieldRows /\ CreateTagReq
    \/ Cardinality(users) < FieldRows /\ CreateUser
    \/ \E todo \in FieldCreateInputs :
          RoomForTodo(FieldTodos) /\ RoomInLog(1, FieldLog) /\ CreateTodoReq(todo)
    \/ \E todo_id \in Ids(FieldTodos), todo \in FieldUpdateInputs :
          LET r == update_todo(DB, todo_id, todo, None, now)
          IN Len(r.db.activity_logs) <= FieldLog /\ UpdateTodoReq(todo_id, todo)

SpecFields == Init /\ [][NextFields]_vars

(***************************************************************************)
(* SpecRelated: todos created and updated with lists of tag, assignee and  *)
(* dependency ids of which some, all or none have a row.                   *)
(***************************************************************************)
RelatedCreateInputs ==
    {Override(TodoCreateDefaults, x) :
        x \in {<<>>,
               [tag_ids |-> {1, 2}, assignee_ids |-> {1, 2},
                dependency_ids |-> {1, 2}]}}

RelatedUpdateInputs ==
    {[tag_ids |-> {1, 2}],
     [tag_ids |-> {2}],
     [assignee_ids |-> {1, 2}, dependency_ids |-> {1, 2}]}

NextRelated ==
    \/ Cardinality(tags) < RelRows /\ CreateTagReq
    \/ Cardinality(users) < RelRows /\ CreateUser
    \/ \E todo \in RelatedCreateInputs :
          RoomForTodo(RelTodos) /\ CreateTodoReq(todo)
    \/ \E todo_id \in Ids(RelTodos), todo \in RelatedUpdateInputs :
          UpdateTodoReq(todo_id, todo)

SpecRelated == Init /\ [][NextRelated]_vars

(***************************************************************************)
(* Properties of the completion timestamp (Spec).                          *)
(***************************************************************************)

\* C1: in every reachable state, each todo has completed_at non-null if and
\* only if its status has been set to completed at least once, by creation,
\* update or bulk update.
C1_CompletedAtIffEverCompleted ==
    \A i \in DOMAIN todos :
        (todos[i].completed_at # None) <=> (i \in ever_completed)

\* C2: update_todo with status completed on a todo whose completed_at is
\* unset stamps completed_at with the current time; once completed_at is set,
\* no update_todo changes or clears it, whatever status it sets.
C2_UpdateStampsOnce ==
    [][\A todo_id \in Ids(UpdTodos), todo \in StatusUpdateInputs :
          (UpdateTodoReq(todo_id, todo) /\ todo_id \in DOMAIN todos) =>
             LET before == todos[todo_id].completed_at
                 after == todos'[todo_id].completed_at
             IN /\ (/\ before = None
                    /\ "status" \in DOMAIN todo
                    /\ todo["status"] = "completed") => after = now
                /\ before # None => after = before]_vars

\* A todo stamped at an earlier time and reopened by the last update_todo
\* keeps its stamp.
C2_Witness ==
    /\ last.op = "update_todo"
    /\ last.status_code = 200
    /\ todos[last.todo_id].status = "PENDING"
    /\ todos[last.todo_id].completed_at # None
    /\ todos[last.todo_id].completed_at < now

(***************************************************************************)
(* Properties of the streak, the trends and the statistics (SpecStats).    *)
(***************************************************************************)

\* C3: the streak calculate_streak returns is the largest k such that each
\* of the calendar days today, today-1, ..., today-(k-1) has at least one
\* completed todo (so completions on today, today-1, today-2 and today-4
\* give 3), for any number of todos per day.
C3_StreakIsRunEndingToday ==
    last.op = "calculate_streak" =>
        LET done == {date(r.completed_at) :
                        r \in Scoped({x \in Rows(DB) : /\ x.status = "COMPLETED"
                                                       /\ x.completed_at # None},
                                     last.user_id)}
            today == date(now)
            Run(k) == \A j \in 0..(k - 1) : (today - j) \in done
        IN last.ret = CHOOSE k \in 0..(today + 1) : Run(k) /\ ~Run(k + 1)

\* C4: when no todo was completed today, calculate_streak returns the number
\* j of consecutive days with a completion that ends yesterday, which is 0
\* only when yesterday has no completion either.
C4_StreakWithoutToday ==
    LET done == {date(r.completed_at) :
                    r \in Scoped({x \in Rows(DB) : /\ x.status = "COMPLETED"
                                                   /\ x.completed_at # None},
                                 last.user_id)}
        today == date(now)
        Prior(j) == \A i \in 1..j : (today - i) \in done
    IN (last.op = "calculate_streak" /\ today \notin done) =>
          last.ret = CHOOSE j \in 0..today : Prior(j) /\ ~Prior(j + 1)

\* C7: get_productivity_trends(days=N) returns N buckets for N consecutive
\* calendar days, oldest first, the last of them today's, so that the todos
\* created or completed today are counted in the last bucket.
C7_TrendsEndToday ==
    last.op = "get_productivity_trends" =>
        LET N == last.days
            today == date(now)
            query == Scoped(Rows(DB), last.user_id)
        IN /\ Len(last.ret.labels) = N
           /\ Len(last.ret.completed) = N
           /\ Len(last.ret.created) = N
           /\ Len(last.ret.time_spent) = N
           /\ \A i \in 1..N : last.ret.labels[i] = today - (N - i)
           /\ last.ret.completed[N] =
                Cardinality({r \in query : /\ r.completed_at # None
                                           /\ date(r.completed_at) = today})
           /\ last.ret.created[N] =
                Cardinality({r \in query : date(r.created_at) = today})

\* C9: with a user scope, every statistic get_todo_stats returns is computed
\* over the todos created by that user only: the statistics are those of the
\* store without the other users' todos.
C9_StatsOfTheUserOnly ==
    (last.op = "get_todo_stats" /\ last.user_id # None) =>
        LET own == {i \in DOMAIN todos : todos[i].created_by = last.user_id}
        IN last.ret = get_todo_stats([DB EXCEPT !.todos = [i \in own |-> todos[i]]],
                                     last.user_id, now)

(***************************************************************************)
(* Properties of the refused requests (SpecRecur).                         *)
(***************************************************************************)

\* C5: a request refused for the state the todo is in (stop_timer on a todo
\* with no running timer, create_recurring_instance on a todo with pattern
\* none or with no due date) is reported with a status code or a detail that
\* the same request for an id that does not exist is not reported with.
C5_InvalidStateDistinctFromNotFound ==
    \A absent \in Ids(RecurTodos) \ DOMAIN todos :
        /\ (/\ last.op = "stop_timer"
            /\ last.status_code # 200
            /\ last.todo_id \in DOMAIN todos) =>
              LET nf == StopTimerOutcome(absent, stop_timer(DB, absent, now).ret)
              IN <<last.status_code, last.detail>> # <<nf.status_code, nf.detail>>
        /\ (/\ last.op = "create_next"
            /\ last.status_code # 200
            /\ last.todo_id \in DOMAIN todos
            /\ \/ todos[last.todo_id].recurrence_pattern = "NONE"
               \/ todos[last.todo_id].due_date = None) =>
              LET nf == CreateNextOutcome(absent,
                            create_recurring_instance(DB, absent, now).ret)
              IN <<last.status_code, last.detail>> # <<nf.status_code, nf.detail>>

(***************************************************************************)
(* Properties of the list view (SpecList).                                 *)
(***************************************************************************)

\* C6: the list get_todos returns, with the default arguments or with any
\* filter, holds no todo whose is_template flag is true, also after
\* create_template has made a template of a listed todo.
C6_ListHasNoTemplate ==
    last.op = "read_todos" =>
        \A i \in Range(last.ret) : ~todos[i].is_template

\* C8: when get_todos is given both the completed flag and a status filter,
\* the status filter takes precedence: the result is the todos with that
\* status, whatever the completed flag says.
C8_StatusFilterTakesPrecedence ==
    (last.op = "read_todos" /\ {"completed", "status"} \subseteq DOMAIN last.args) =>
        Range(last.ret) =
            {i \in DOMAIN todos : /\ todos[i].parent_id = None
                                  /\ ~todos[i].is_archived
                                  /\ todos[i].status = upper(last.args["status"])}

(***************************************************************************)
(* Properties of the timer (SpecTimer).                                    *)
(***************************************************************************)

\* C10: a successful stop_timer appends exactly one time entry, whose
\* duration is the whole number of seconds since the timer was started;
\* actual_duration becomes the floor of the sum of all the entries' durations
\* over 60, whatever update_todo had written there; timer_started_at is
\* cleared; a first stop 90 whole seconds after the start leaves one entry
\* of duration 90 and actual_duration 1.
C10_StopTimerRecomputes ==
    [][\A todo_id \in Ids(TimerTodos) :
          (StopTimerReq(todo_id) /\ last'.status_code = 200) =>
             LET before == LoadTimeEntries(todos[todo_id].time_entries)
                 after == LoadTimeEntries(todos'[todo_id].time_entries)
                 elapsed == now - todos[todo_id].timer_started_at
                 entry == after[Len(after)]
                 seconds == SumSeq([i \in DOMAIN after |-> after[i].duration])
                 minutes == todos'[todo_id].actual_duration
             IN /\ Len(after) = Len(before) + 1
                /\ SubSeq(after, 1, Len(before)) = before
                /\ entry.duration * UnitsPerSecond <= elapsed
                /\ elapsed < (entry.duration + 1) * UnitsPerSecond
                /\ minutes * SecondsPerMinute <= seconds
                /\ seconds < (minutes + 1) * SecondsPerMinute
                /\ todos'[todo_id].timer_started_at = None
                /\ (before = <<>> /\ elapsed \div UnitsPerSecond = 90) =>
                      (entry.duration = 90 /\ minutes = 1)]_vars

\* The first stop of a timer started 90 whole seconds earlier, on a todo
\* whose actual_duration update_todo had set to 5.
C10_Witness ==
    /\ last.op = "stop_timer"
    /\ last.status_code = 200
    /\ \E k \in DOMAIN activity_logs :
          /\ activity_logs[k].action = "updated"
          /\ activity_logs[k].todo_id = last.todo_id
    /\ LET entries == LoadTimeEntries(todos[last.todo_id].time_entries)
       IN /\ Len(entries) = 1
          /\ entries[1].duration = 90
    /\ todos[last.todo_id].actual_duration = 1
    /\ todos[last.todo_id].timer_started_at = None

(***************************************************************************)
(* Properties of the recurring instances (SpecInstance).                   *)
(***************************************************************************)

\* C11: create_recurring_instance creates an instance only when the original
\* exists, its pattern is not none, it has a due date and, if an end date is
\* set, the next due date does not exceed it; in every other case no todo is
\* created and the store is unchanged.  So no instance is ever created from
\* a todo whose pattern is none.
C11_InstanceOnlyWhenAllowed ==
    [][\A todo_id \in Ids(InstTodos) :
          CreateNextReq(todo_id) =>
             LET exists == todo_id \in DOMAIN todos
                 original == todos[todo_id]
                 days == CASE original.recurrence_pattern = "DAILY" -> 1
                           [] original.recurrence_pattern = "WEEKLY" -> 7
                           [] original.recurrence_pattern = "MONTHLY" -> 30
                           [] original.recurrence_pattern = "YEARLY" -> 365
                 has_next == original.recurrence_pattern
                                \in {"DAILY", "WEEKLY", "MONTHLY", "YEARLY"}
                 allowed ==
                    /\ exists
                    /\ original.recurrence_pattern # "NONE"
                    /\ original.due_date # None
                    /\ original.recurrence_end_date # None =>
                         /\ has_next
                         /\ original.due_date + days * UnitsPerDay
                                <= original.recurrence_end_date
                 created == DOMAIN todos' \ DOMAIN todos
             IN /\ ~allowed => /\ todos' = todos
                               /\ activity_logs' = activity_logs
                               /\ next_id' = next_id
                /\ \A i \in DOMAIN todos : todos'[i] = todos[i]
                /\ \A i \in created : todos'[i].original_todo_id = todo_id
                /\ (exists /\ original.recurrence_pattern = "NONE") =>
                      created = {}]_vars

\* The request for a next instance of an instance is refused for its end
\* date, the instance itself having been created within the end date.
C11_Witness ==
    /\ last.op = "create_next"
    /\ last.status_code = 400
    /\ last.todo_id \in DOMAIN todos
    /\ todos[last.todo_id].recurrence_pattern = "WEEKLY"
    /\ todos[last.todo_id].due_date # None
    /\ todos[last.todo_id].recurrence_end_date # None
    /\ todos[last.todo_id].original_todo_id # None

\* C12: the due date of an instance is the original's due date plus 1 day
\* (daily), 7 days (weekly), 30 days (monthly) or 365 days (yearly), whatever
\* the calendar; an original due 2024-01-31 with pattern monthly gives an
\* instance due 2024-03-01.
C12_FixedOffset ==
    [][\A todo_id \in Ids(InstTodos) :
          (CreateNextReq(todo_id) /\ last'.status_code = 200) =>
             LET original == todos[todo_id]
                 instance == todos'[last'.ret]
                 pattern == original.recurrence_pattern
             IN /\ last'.ret \notin DOMAIN todos
                /\ pattern = "DAILY" =>
                      instance.due_date = original.due_date + UnitsPerDay
                /\ pattern = "WEEKLY" =>
                      instance.due_date = original.due_date + 7 * UnitsPerDay
                /\ pattern = "MONTHLY" =>
                      instance.due_date = original.due_date + 30 * UnitsPerDay
                /\ pattern = "YEARLY" =>
                      instance.due_date = original.due_date + 365 * UnitsPerDay
                /\ (pattern = "MONTHLY" /\ month_day(original.due_date) = <<1, 31>>)
                      => month_day(instance.due_date) = <<3, 1>>]_vars

\* The instance of a monthly original due 2024-01-31 has just been created.
C12_Witness ==
    /\ last.op = "create_next"
    /\ last.status_code = 200
    /\ todos[last.todo_id].recurrence_pattern = "MONTHLY"
    /\ month_day(todos[last.todo_id].due_date) = <<1, 31>>
    /\ todos[last.ret].original_todo_id = last.todo_id
    /\ month_day(todos[last.ret].due_date) = <<3, 1>>

(***************************************************************************)
(* Properties of the archived todos (SpecArchive).                         *)
(***************************************************************************)

\* C13: get_todos with include_archived false, given or by default, returns
\* no todo whose is_archived flag is true, whatever the other filters, the
\* order and the page, after any update_todo and bulk archive.
C13_NoArchivedByDefault ==
    (/\ last.op = "read_todos"
     /\ ("include_archived" \in DOMAIN last.args => ~last.args["include_archived"]))
        => \A i \in Range(last.ret) : ~todos[i].is_archived

\* A list asked for with include_archived=false returns a todo while another
\* todo, archived by the bulk archive, is in the store.
C13_Witness ==
    /\ last.op = "read_todos"
    /\ "include_archived" \in DOMAIN last.args
    /\ ~last.args["include_archived"]
    /\ last.ret # <<>>
    /\ \E i \in DOMAIN todos :
          /\ todos[i].is_archived
          /\ \E k \in DOMAIN activity_logs :
                /\ activity_logs[k].action = "bulk_updated"
                /\ activity_logs[k].todo_id = i

(***************************************************************************)
(* Properties of the order by priority (SpecSort).                         *)
(***************************************************************************)

\* C14: get_todos with sort_by=priority lists the todos by the rank
\* urgent(1) < high(2) < medium(3) < low(4) < unrecognized(5): ascending
\* from urgent to unrecognized, descending the reverse, whatever the order
\* of insertion and the names of the priorities.
C14_PriorityRankOrder ==
    (/\ last.op = "read_todos"
     /\ "sort_by" \in DOMAIN last.args
     /\ last.args["sort_by"] = "priority") =>
        LET ret == last.ret
            rank(i) == CASE todos[i].priority = "URGENT" -> 1
                         [] todos[i].priority = "HIGH" -> 2
                         [] todos[i].priority = "MEDIUM" -> 3
                         [] todos[i].priority = "LOW" -> 4
                         [] OTHER -> 5
            ascending == /\ "sort_order" \in DOMAIN last.args
                         /\ last.args["sort_order"] = "asc"
        IN /\ Range(ret) = DOMAIN todos
           /\ Len(ret) = Cardinality(DOMAIN todos)
           /\ \A i, j \in DOMAIN ret :
                 i < j => IF ascending THEN rank(ret[i]) <= rank(ret[j])
                                       ELSE rank(ret[i]) >= rank(ret[j])

\* The ascending list puts an urgent todo created second before a low todo
\* created first.
C14_Witness ==
    /\ last.op = "read_todos"
    /\ last.args = [sort_by |-> "priority", sort_order |-> "asc"]
    /\ last.ret = <<2, 1>>
    /\ todos[1].priority = "LOW"
    /\ todos[2].priority = "URGENT"

\* C15: the activity log only grows.  Every step of every operation keeps
\* each entry of the log at its place with the same todo reference, user,
\* action, details and timestamp, the step that deletes the todo the entry
\* refers to included.
C15_LogOnlyGrows ==
    [][\A k \in DOMAIN activity_logs :
          /\ k \in DOMAIN activity_logs'
          /\ activity_logs'[k] = activity_logs[k]]_vars

\* A todo was created, updated and deleted: its three entries are in the
\* log and the todo is not in the store.
C15_Witness ==
    /\ Len(activity_logs) = 3
    /\ activity_logs[1].action = "created"
    /\ activity_logs[2].action = "updated"
    /\ activity_logs[3].action = "deleted"
    /\ \A k \in 1..3 : activity_logs[k].todo_id = 1
    /\ 1 \notin DOMAIN todos

\* C16: delete_todo on an existing todo removes that todo and all of its
\* comments and no other todo; every other todo -- its dependents, its
\* dependencies and its children among them -- stays in the store with its
\* own columns unchanged (the rows of the association tables left aside).
C16_DeleteRemovesOnlyTheTodo ==
    [][LET Columns(row) ==
              [k \in DOMAIN row \ {"tags", "assignees", "dependencies"} |-> row[k]]
       IN
       \A todo_id \in DOMAIN todos :
          (/\ last'.op = "delete_todo"
           /\ last'.todo_id = todo_id
           /\ last'.status_code = 200) =>
              /\ todo_id \notin DOMAIN todos'
              /\ \A k \in DOMAIN comments' : comments'[k].todo_id # todo_id
              /\ \A i \in DOMAIN todos \ {todo_id} :
                    /\ i \in DOMAIN todos'
                    /\ Columns(todos'[i]) = Columns(todos[i])]_vars

\* C17: in every reachable state each stored comment's todo_id is the id of
\* a todo in the store, and a create_comment that named an id of no todo was
\* answered Not Found (404).
C17_CommentsReferToTodos ==
    /\ \A k \in DOMAIN comments : comments[k].todo_id \in DOMAIN todos
    /\ (last.op = "create_comment" /\ last.todo_id \notin DOMAIN todos) =>
           last.status_code = 404

\* C18: a bulk update (the bulk complete, the bulk archive) answers with the
\* number of ids of the request, ids of no todo counted; it applies the
\* update to every todo the list names, leaves every other todo as it was,
\* and appends one bulk_updated entry for each id of the list, in order.
C18_BulkCountsAndLogsEveryId ==
    [][\A todo_ids \in IdLists(MaxTodos) :
          (BulkCompleteReq(todo_ids) \/ BulkArchiveReq(todo_ids)) =>
              /\ last'.status_code = 200
              /\ last'.ret = Len(todo_ids)
              /\ DOMAIN todos' = DOMAIN todos
              /\ \A i \in DOMAIN todos :
                    IF i \in Range(todo_ids)
                    THEN IF last'.op = "bulk_archive"
                         THEN todos'[i] = [todos[i] EXCEPT !.is_archived = TRUE]
                         ELSE todos'[i].status = "COMPLETED"
                    ELSE todos'[i] = todos[i]
              /\ Len(activity_logs') = Len(activity_logs) + Len(todo_ids)
              /\ \A j \in DOMAIN todo_ids :
                    LET entry == activity_logs'[Len(activity_logs) + j]
                    IN /\ entry.todo_id = todo_ids[j]
                       /\ entry.action = "bulk_updated"]_vars

\* C19: update_todo on an existing todo appends an "updated" entry exactly
\* when the value of a column the request names differs after the update
\* from the stored one: no entry for a request with no column or with the
\* stored values only; when there is an entry, its details have exactly the
\* columns whose value changed, each with the old and the new value as
\* strings.
C19_UpdatedEntryHasTheChanges ==
    [][(last'.op = "update_todo" /\ last'.status_code = 200) =>
              LET todo_id == last'.todo_id
                  todo == last'.todo
                  old == todos[todo_id]
                  new == todos'[todo_id]
                  changed == {k \in DOMAIN todo \ RelKeys : new[k] # old[k]}
                  entry == activity_logs'[Len(activity_logs')]
              IN IF changed = {}
                 THEN activity_logs' = activity_logs
                 ELSE /\ Len(activity_logs') = Len(activity_logs) + 1
                      /\ SubSeq(activity_logs', 1, Len(activity_logs))
                            = activity_logs
                      /\ entry.action = "updated"
                      /\ entry.todo_id = todo_id
                      /\ DOMAIN json_loads(entry.details) = changed
                      /\ \A k \in changed :
                            /\ json_loads(entry.details)[k].old = str(k, old[k])
                            /\ json_loads(entry.details)[k].new = str(k, new[k])]_vars

\* An update that sent the stored title and a new priority was logged with
\* the priority alone.
C19_Witness ==
    /\ last.op = "update_todo"
    /\ last.status_code = 200
    /\ last.todo = [title |-> "a", priority |-> "high"]
    /\ Len(activity_logs) = 2
    /\ activity_logs[2].action = "updated"
    /\ json_loads(activity_logs[2].details) =
          [priority |-> [old |-> "PriorityLevel.MEDIUM",
                         new |-> "PriorityLevel.HIGH"]]
    /\ todos[1].title = "a"

C21_UnknownIdsDropped ==
    [][LET rel == [tag_ids |-> "tags", assignee_ids |-> "assignees",
                   dependency_ids |-> "dependencies"]
           rows == [tag_ids |-> tags, assignee_ids |-> users,
                    dependency_ids |-> DOMAIN todos]
           Sent(todo, k) == k \in DOMAIN todo /\ todo[k] # NoneList
       IN /\ \A todo \in RelatedCreateInputs :
                CreateTodoReq(todo) =>
                   /\ last'.status_code = 200
                   /\ \A k \in RelKeys :
                         todos'[last'.ret][rel[k]] =
                            IF Sent(todo, k)
                            THEN {i \in todo[k] : i \in rows[k]}
                            ELSE {}
          /\ (last'.op = "update_todo" /\ last'.todo_id \in DOMAIN todos) =>
                   /\ last'.status_code = 200
                   /\ \A k \in RelKeys :
                         Sent(last'.todo, k) =>
                            todos'[last'.todo_id][rel[k]] =
                               {i \in last'.todo[k] : i \in rows[k]}]_vars

\* An update sent the tags 1 and 2 to a todo while only tag 1 exists: the
\* todo has tag 1 alone.
C21_Witness ==
    /\ last.op = "update_todo"
    /\ last.status_code = 200
    /\ last.todo = [tag_ids |-> {1, 2}]
    /\ tags = {1}
    /\ todos[last.todo_id].tags = {1}

\* C22: a read, an update, a delete, a timer start, a pomodoro and a
\* make-template that name an id of no todo, and a create-from-template that
\* names an id of no todo or a todo that is no template, are answered
\* not found (404) and leave the whole store as it was: no todo made or
\* changed, no activity entry appended.
C22_NotFoundChangesNothing ==
    [][(\/ /\ last'.op \in {"read_todo", "update_todo", "delete_todo",
                             "start_timer", "complete_pomodoro", "make_template"}
           /\ last'.todo_id \notin DOMAIN todos
        \/ /\ last'.op = "create_from_template"
           /\ \/ last'.todo_id \notin DOMAIN todos
              \/ ~todos[last'.todo_id].is_template) =>
          /\ last'.status_code = 404
          /\ last'.ret = None
          /\ UNCHANGED <<todos, categories, activity_logs, comments, tags,
                         users, next_id>>]_vars

\* A create-from-template named a todo that is in the store and is no
\* template: not found, and the store holds that todo alone, with the one
\* entry of its creation.
C22_Witness ==
    /\ last.op = "create_from_template"
    /\ last.status_code = 404
    /\ last.todo_id \in DOMAIN todos
    /\ ~todos[last.todo_id].is_template
    /\ Cardinality(DOMAIN todos) = 1
    /\ Len(activity_logs) = 1

\* C23: stop_timer on a todo in the store whose timer is not running does
\* nothing: it is answered with the failure (404, nothing returned) and the
\* todo keeps its time entries, its actual_duration, its status and every
\* other field, as does the rest of the store; so for a second stop after a
\* successful one.
C23_StopWithoutTimerIsNoOp ==
    [][(/\ last'.op = "stop_timer"
        /\ last'.todo_id \in DOMAIN todos
        /\ todos[last'.todo_id].timer_started_at = None) =>
          /\ last'.status_code = 404
          /\ last'.ret = None
          /\ UNCHANGED <<todos, categories, activity_logs, comments, tags,
                         users, next_id>>]_vars

\* A stop was refused on a todo that has the time entry of an earlier,
\* successful stop and no running timer.
C23_Witness ==
    /\ last.op = "stop_timer"
    /\ last.status_code = 404
    /\ last.todo_id \in DOMAIN todos
    /\ todos[last.todo_id].timer_started_at = None
    /\ Len(LoadTimeEntries(todos[last.todo_id].time_entries)) = 1
    /\ todos[last.todo_id].actual_duration = 1

\* C24: start_timer on a todo in the store, whatever its status (completed
\* and cancelled included) and whether or not its timer is running, sets
\* timer_started_at to the time of the request and the status to
\* in_progress and changes nothing else: completed_at, time_entries and
\* actual_duration stay, and a restart records no time entry.
C24_StartStampsAndForcesInProgress ==
    [][(last'.op = "start_timer" /\ last'.todo_id \in DOMAIN todos) =>
          /\ last'.status_code = 200
          /\ todos' = [todos EXCEPT
                          ![last'.todo_id].timer_started_at = now,
                          ![last'.todo_id].status = "IN_PROGRESS"]
          /\ UNCHANGED <<activity_logs, comments, next_id>>]_vars

\* The timer was started on a completed todo that has the time entry of an
\* earlier run: the todo is in progress, still has its completed_at, its one
\* entry and its actual_duration.
C24_Witness ==
    /\ last.op = "start_timer"
    /\ last.status_code = 200
    /\ todos[last.todo_id].status = "IN_PROGRESS"
    /\ todos[last.todo_id].timer_started_at = now
    /\ todos[last.todo_id].completed_at # None
    /\ Len(LoadTimeEntries(todos[last.todo_id].time_entries)) = 1
    /\ todos[last.todo_id].actual_duration = 1

\* C25: every create_todo appends exactly one "created" entry with the id
\* and the title of the new todo; every successful delete_todo appends
\* exactly one "deleted" entry with the id of the deleted todo and the title
\* it had; a bulk delete appends one such entry for each id of its list that
\* has a todo, in the order of the list, and none for the others.
C25_CreatedAndDeletedEntries ==
    [][LET Entry(k) == activity_logs'[Len(activity_logs) + k]
           Grown(n) == /\ Len(activity_logs') = Len(activity_logs) + n
                       /\ SubSeq(activity_logs', 1, Len(activity_logs))
                             = activity_logs
           existing == IF last'.op = "bulk_delete"
                       THEN SelectSeq(last'.todo_id,
                                      LAMBDA i : i \in DOMAIN todos)
                       ELSE <<>>
       IN /\ last'.op = "create_todo" =>
                /\ Grown(1)
                /\ Entry(1).action = "created"
                /\ Entry(1).todo_id = last'.ret
                /\ json_loads(Entry(1).details)
                      = [title |-> todos'[last'.ret].title]
          /\ (last'.op = "delete_todo" /\ last'.status_code = 200) =>
                /\ Grown(1)
                /\ Entry(1).action = "deleted"
                /\ Entry(1).todo_id = last'.todo_id
                /\ json_loads(Entry(1).details)
                      = [title |-> todos[last'.todo_id].title]
          /\ last'.op = "bulk_delete" =>
                /\ Grown(Len(existing))
                /\ \A k \in DOMAIN existing :
                      /\ Entry(k).action = "deleted"
                      /\ Entry(k).todo_id = existing[k]
                      /\ json_loads(Entry(k).details)
                            = [title |-> todos[existing[k]].title]]_vars

\* A todo was created, given the title b and deleted: the log has its
\* "created" entry with the title a and its "deleted" entry with the title b.
C25_Witness ==
    /\ last.op = "delete_todo"
    /\ last.status_code = 200
    /\ Len(activity_logs) = 3
    /\ activity_logs[1].action = "created"
    /\ json_loads(activity_logs[1].details) = [title |-> "a"]
    /\ activity_logs[3].action = "deleted"
    /\ activity_logs[3].todo_id = last.todo_id
    /\ json_loads(activity_logs[3].details) = [title |-> "b"]
    /\ last.todo_id \notin DOMAIN todos

\* C26: the CSV export has one data row, the header left aside, for each
\* todo that matches the status filter of the request, and the ICS export
\* has one VEVENT for each todo with a due date and none for a todo without.
C26_ExportCounts ==
    /\ last.op = "export_csv" =>
          Len(last.ret) - 1 =
             Cardinality({i \in DOMAIN todos :
                            "status" \in DOMAIN last.args =>
                                todos[i].status = upper(last.args["status"])})
    /\ last.op = "export_ics" =>
          Cardinality({k \in DOMAIN last.ret : last.ret[k] = "BEGIN:VEVENT"}) =
             Cardinality({i \in DOMAIN todos : todos[i].due_date # None})

\* C27: every entry that create_todo, update_todo, delete_todo or
\* bulk_update_todos appends names a todo that is in the store when the entry
\* is appended (for delete_todo that is after the row is deleted and committed,
\* for the others after their commit).
C27_EntriesNameStoredTodos ==
    [][\A k \in (Len(activity_logs) + 1)..Len(activity_logs') :
          activity_logs'[k].action
                \in {"created", "updated", "deleted", "bulk_updated"} =>
              activity_logs'[k].todo_id \in DOMAIN todos']_vars

\* C28: the pomodoro_count of a todo is the number of complete_pomodoro
\* requests answered with success on it, whatever its pomodoro_target,
\* also when the reads and the writes of several requests interleave.
C28_CountIsRequestsSucceeded ==
    \A i \in DOMAIN todos : todos[i].pomodoro_count = Answered(i)

\* C29: create_recurring_instance makes at most one instance for an original
\* and a due date of it: no two todos have the same original_todo_id and the
\* same due date.
C29_OneInstancePerDueDate ==
    \A i, j \in DOMAIN todos :
        (/\ i # j
         /\ todos[i].original_todo_id # None
         /\ todos[i].original_todo_id = todos[j].original_todo_id) =>
            todos[i].due_date # todos[j].due_date

====
